---- MODULE Spec2Model ----
(***************************************************************************)
(* Model of the shopping assistant's core state machines:                  *)
(*   - the purchase confirmation gate of shopping_tool/server.py           *)
(*     (preview_checkout / confirm_purchase over _pending_confirmations),  *)
(*   - the tab collection of shopping_tool/browser.py (BrowserManager),    *)
(*   - the page actions of BrowserManager (click, fill, scroll, ...),      *)
(*   - the selector resolution of shopping_tool/element_resolver.py,       *)
(*   - the dispatcher call_tool and the page tool handlers of server.py,   *)
(*   - new_page, get_tab_list and close as coroutines on the event loop.   *)
(* Strings are sequences of one-character strings, so that strip() and     *)
(* upper() are computed character by character.                            *)
(***************************************************************************)
EXTENDS Integers, Sequences, FiniteSets, TLC

VARIABLES
    now,                \* the wall clock read by time.time(), in seconds
    profile,            \* the stored user profile, or NoProfile
    pending,            \* _pending_confirmations: code -> [created_at, url]
    issued,             \* history: code -> [at, used], when preview last stored
                        \* the code and whether a confirm has consumed it since
    resp,               \* the last gate call: its argument and what it returned
    playwright,         \* BrowserManager._playwright: "None" or "driver"
    browser,            \* BrowserManager._browser: [id, connected], id 0 = None
    context,            \* BrowserManager._context: [id, browser], id 0 = None
    tabs,               \* BrowserManager._tabs: sequence of pages [id, url, closed]
    active_tab_index,   \* BrowserManager._active_tab_index (0-based, -1 = none)
    launches,           \* history: number of chromium.launch calls that returned
    contexts_created,   \* history: number of browser.new_context calls that returned
    pages_created,      \* history: number of context.new_page calls that returned
    ret,                \* the last browser tool call: what it answered
    act,                \* the last page action: the page's behaviour and how it ended
    rs,                 \* the resolve_selector call: its arguments, its position
                        \* in the retry loop, the transport calls made, its result
    tool,               \* the last call_tool call: the tool, what its handler
                        \* did, and what call_tool returned
    co                  \* the coroutines in flight on the event loop: a new_page,
                        \* a get_tab_list and a close call, each at its
                        \* suspension point

gateVars == <<now, profile, pending, issued, resp>>
sessionVars == <<playwright, browser, context, tabs, active_tab_index,
                 launches, contexts_created, pages_created>>
tabVars == <<playwright, browser, context, tabs, active_tab_index,
             launches, contexts_created, pages_created, ret>>
vars == <<now, profile, pending, issued, resp,
          playwright, browser, context, tabs, active_tab_index,
          launches, contexts_created, pages_created, ret, act, rs, tool, co>>

\* what the gate's operations leave alone, and what the session's leave alone
nonGateVars == <<tabVars, act, rs, tool, co>>
nonTabVars == <<gateVars, act, rs, tool, co>>
nonActVars == <<gateVars, tabVars, rs, tool, co>>
nonResolverVars == <<gateVars, tabVars, act, tool, co>>
nonToolVars == <<gateVars, act, rs, co>>
nonLoopVars == <<gateVars, act, rs, tool>>

-----------------------------------------------------------------------------
(* Bounds of the model *)

\* the clock stops advancing once it has reached MaxTime
MaxTime == 302

\* how many pages the browser may create in the model
MaxPages == 3

\* how many times the browser may be launched, and a context created
MaxLaunches == 2

-----------------------------------------------------------------------------
(* Strings *)

LowerAlpha == <<"a", "b", "c", "d", "e", "f", "g", "h", "i", "j", "k", "l", "m",
                "n", "o", "p", "q", "r", "s", "t", "u", "v", "w", "x", "y", "z">>
UpperAlpha == <<"A", "B", "C", "D", "E", "F", "G", "H", "I", "J", "K", "L", "M",
                "N", "O", "P", "Q", "R", "S", "T", "U", "V", "W", "X", "Y", "Z">>
HexDigits == <<"0", "1", "2", "3", "4", "5", "6", "7", "8", "9",
               "a", "b", "c", "d", "e", "f">>
Whitespace == {" ", "\t", "\n", "\r"}

SetMin(S) == CHOOSE x \in S : \A y \in S : x <= y
SetMax(S) == CHOOSE x \in S : \A y \in S : x >= y
Range(s) == {s[i] : i \in DOMAIN s}

\* str.upper() and str.lower() on one character, as tables over the letters
ToUpper == [ch \in {LowerAlpha[i] : i \in 1..26} |->
               UpperAlpha[CHOOSE i \in 1..26 : LowerAlpha[i] = ch]]
ToLower == [ch \in {UpperAlpha[i] : i \in 1..26} |->
               LowerAlpha[CHOOSE i \in 1..26 : UpperAlpha[i] = ch]]

UpperChar(ch) == IF ch \in DOMAIN ToUpper THEN ToUpper[ch] ELSE ch

LowerChar(ch) == IF ch \in DOMAIN ToLower THEN ToLower[ch] ELSE ch

\* str.upper()
Upper(s) == [i \in 1..Len(s) |-> UpperChar(s[i])]

\* str.lower()
Lower(s) == [i \in 1..Len(s) |-> LowerChar(s[i])]

\* str.strip(): drops leading and trailing whitespace, keeps inner whitespace
Strip(s) ==
    LET keep == {i \in 1..Len(s) : s[i] \notin Whitespace}
    IN IF keep = {} THEN <<>> ELSE SubSeq(s, SetMin(keep), SetMax(keep))

\* the two lower-case hex digits of one byte
HexByte(b) == <<HexDigits[(b \div 16) + 1], HexDigits[(b % 16) + 1]>>

\* secrets.token_hex(n) for the random bytes bs (n = Len(bs))
RECURSIVE TokenHex(_)
TokenHex(bs) == IF bs = <<>> THEN <<>> ELSE HexByte(Head(bs)) \o TokenHex(Tail(bs))

-----------------------------------------------------------------------------
(* Confirmation gate: shopping_tool/server.py *)

\* _CONFIRMATION_TTL
CONFIRMATION_TTL == 300

\* the number of random bytes _generate_confirmation_code asks for
TokenBytes == 3

\* the random byte strings secrets may return in the model
RandomBytes == { <<161, 178, 195>>, <<0, 255, 30>> }

\* mutant: the code is returned as token_hex gives it, without upper()
GenerateConfirmationCodeLower(bs) == TokenHex(bs)

\* _generate_confirmation_code, for the random bytes drawn
GenerateConfirmationCode(bs) == Upper(TokenHex(bs))

\* args.get("url", "current_cart")
DefaultUrl == "current_cart"
NoArg == "(absent)"
UrlArgs == {NoArg, "https://shop.example/cart"}
ArgUrl(u) == IF u = NoArg THEN DefaultUrl ELSE u

NoProfile == [email |-> <<>>, full_name |-> <<>>, saved |-> FALSE]
\* the profiles setup_profile may be asked to save
ProfileInputs ==
    { [email |-> <<"j", "@", "x">>, full_name |-> <<"J", " ", "D">>],
      [email |-> <<"j", "x", "x">>, full_name |-> <<"J", " ", "D">>],
      [email |-> <<>>,              full_name |-> <<"J", " ", "D">>] }

\* ProfileManager.exists
ProfileExists == profile.saved

\* ProfileManager.get_redacted_summary raises: full_name.split() is empty,
\* the email is empty, or the email has no "@" to split on
SummaryRaises(p) ==
    \/ Strip(p.full_name) = <<>>
    \/ p.email = <<>>
    \/ \A i \in 1..Len(p.email) : p.email[i] # "@"

\* mutant: the age is computed with its operands swapped
ExpiredSwapped(store, t) ==
    {k \in DOMAIN store : store[k].created_at - t > CONFIRMATION_TTL}

\* mutant: a record is expired as soon as its age reaches the TTL
ExpiredInclusive(store, t) ==
    {k \in DOMAIN store : t - store[k].created_at >= CONFIRMATION_TTL}

\* the keys _cleanup_expired_confirmations collects at time t
Expired(store, t) ==
    {k \in DOMAIN store : t - store[k].created_at > CONFIRMATION_TTL}

\* mutant: the expired keys are collected but never deleted
CleanupExpiredNoDelete(store, t) == store

\* mutant: the filter is inverted, the unexpired records are the ones deleted
CleanupExpiredInverted(store, t) == [k \in Expired(store, t) |-> store[k]]

\* _cleanup_expired_confirmations at time t
CleanupExpired(store, t) ==
    [k \in DOMAIN store \ Expired(store, t) |-> store[k]]

\* _pending_confirmations[code] = rec
StorePut(store, code, rec) ==
    [k \in DOMAIN store \cup {code} |-> IF k = code THEN rec ELSE store[k]]

\* mutant: pop empties the store
StorePopAll(store, code) == <<>>

\* _pending_confirmations.pop(code): the store without code
StorePop(store, code) == [k \in DOMAIN store \ {code} |-> store[k]]

\* mutant: the argument is trimmed but not upper-cased
NormalizeCodeStripOnly(s) == Strip(s)

\* the normalisation confirm applies to its argument
NormalizeCode(s) == Upper(Strip(s))

NoResp == [op |-> "none", status |-> "none", arg |-> <<>>, code |-> <<>>, url |-> ""]

\* mutant: the record is read with [] instead of pop() and stays in the store
HandleConfirmPurchaseNoPop(arg) ==
    LET code == NormalizeCode(arg)
        swept == CleanupExpired(pending, now)
    IN IF code \notin DOMAIN swept
       THEN /\ pending' = swept
            /\ resp' = [op |-> "confirm_purchase", status |-> "rejected", arg |-> arg,
                        code |-> <<>>, url |-> ""]
            /\ UNCHANGED <<now, profile, issued>>
       ELSE /\ pending' = swept
            /\ issued' = [issued EXCEPT ![code].used = TRUE]
            /\ resp' = [op |-> "confirm_purchase", status |-> "stub", arg |-> arg,
                        code |-> code, url |-> swept[code].url]
            /\ UNCHANGED <<now, profile>>

\* _handle_setup_profile with action = "init": the profile is saved, then the
\* redacted summary is built for the answer
HandleSetupProfileInit(p) ==
    IF p.email = <<>>
    THEN /\ resp' = [NoResp EXCEPT !.op = "setup_profile", !.status = "error"]
         /\ UNCHANGED <<now, profile, pending, issued>>
    ELSE /\ profile' = [email |-> p.email, full_name |-> p.full_name, saved |-> TRUE]
         /\ resp' = [NoResp EXCEPT !.op = "setup_profile",
                        !.status = IF SummaryRaises(p) THEN "raised" ELSE "saved"]
         /\ UNCHANGED <<now, pending, issued>>

\* mutant: the sweep runs before the profile test
HandlePreviewCheckoutSweepsFirst(u, bs) ==
    IF ~ProfileExists
    THEN /\ pending' = CleanupExpired(pending, now)
         /\ resp' = [NoResp EXCEPT !.op = "preview_checkout", !.status = "error"]
         /\ UNCHANGED <<now, profile, issued>>
    ELSE LET swept == CleanupExpired(pending, now)
             code == GenerateConfirmationCode(bs)
             rec == [created_at |-> now, url |-> ArgUrl(u)]
         IN /\ pending' = StorePut(swept, code, rec)
            /\ issued' = StorePut(issued, code, [at |-> now, used |-> FALSE])
            /\ resp' = IF SummaryRaises(profile)
                       THEN [NoResp EXCEPT !.op = "preview_checkout", !.status = "raised"]
                       ELSE [NoResp EXCEPT !.op = "preview_checkout", !.status = "preview",
                                           !.code = code]
            /\ UNCHANGED <<now, profile>>

\* _handle_preview_checkout, for the random bytes bs drawn by secrets
HandlePreviewCheckout(u, bs) ==
    IF ~ProfileExists
    THEN /\ resp' = [NoResp EXCEPT !.op = "preview_checkout", !.status = "error"]
         /\ UNCHANGED <<now, profile, pending, issued>>
    ELSE LET swept == CleanupExpired(pending, now)
             code == GenerateConfirmationCode(bs)
             rec == [created_at |-> now, url |-> ArgUrl(u)]
         IN /\ pending' = StorePut(swept, code, rec)
            /\ issued' = StorePut(issued, code, [at |-> now, used |-> FALSE])
            /\ resp' = IF SummaryRaises(profile)
                       THEN [NoResp EXCEPT !.op = "preview_checkout", !.status = "raised"]
                       ELSE [NoResp EXCEPT !.op = "preview_checkout", !.status = "preview",
                                           !.code = code]
            /\ UNCHANGED <<now, profile>>

\* _handle_confirm_purchase
HandleConfirmPurchase(arg) ==
    LET code == NormalizeCode(arg)
        swept == CleanupExpired(pending, now)
    IN IF code \notin DOMAIN swept
       THEN /\ pending' = swept
            /\ resp' = [NoResp EXCEPT !.op = "confirm_purchase", !.status = "rejected",
                                      !.arg = arg]
            /\ UNCHANGED <<now, profile, issued>>
       ELSE /\ pending' = StorePop(swept, code)
            /\ issued' = [issued EXCEPT ![code].used = TRUE]
            /\ resp' = [op |-> "confirm_purchase", status |-> "stub", arg |-> arg,
                        code |-> code, url |-> swept[code].url]
            /\ UNCHANGED <<now, profile>>

\* the steps by which time.time() advances between calls
ClockSteps == {CONFIRMATION_TTL \div 2, CONFIRMATION_TTL \div 2 + 1}

Tick(d) ==
    /\ now + d <= MaxTime
    /\ now' = now + d
    /\ UNCHANGED <<profile, pending, issued, resp>>

\* the codes preview can issue in the model
IssuableCodes == {GenerateConfirmationCode(bs) : bs \in RandomBytes}

\* what a caller may pass to confirm: each issuable code as issued, lower-cased
\* and padded with whitespace, a code split by an inner blank, a code never issued
ConfirmArgs ==
    UNION { { c, Lower(c), <<" ">> \o Lower(c) \o <<"\n">>,
              <<"\t">> \o c } : c \in IssuableCodes }
    \cup { <<"A", "1", "B", " ", "2", "C", "3">>, <<"B", "A", "D", "C", "O", "D", "E">> }

\* the profile file is removed from outside the tool: ProfileManager.exists
\* tests the path on every call
ProfileFileRemoved ==
    /\ ProfileExists
    /\ profile' = NoProfile
    /\ UNCHANGED <<now, pending, issued, resp>>

ProfileRemoved ==
    /\ ProfileFileRemoved
    /\ UNCHANGED nonGateVars

GateInit ==
    /\ now = 0
    /\ profile = NoProfile
    /\ pending = <<>>
    /\ issued = <<>>
    /\ resp = NoResp

SetupProfile ==
    /\ \E p \in ProfileInputs : HandleSetupProfileInit(p)
    /\ UNCHANGED nonGateVars

PreviewCheckout ==
    /\ \E u \in UrlArgs, bs \in RandomBytes : HandlePreviewCheckout(u, bs)
    /\ UNCHANGED nonGateVars

ConfirmPurchase ==
    /\ \E arg \in ConfirmArgs : HandleConfirmPurchase(arg)
    /\ UNCHANGED nonGateVars

Advance ==
    /\ \E d \in ClockSteps : Tick(d)
    /\ UNCHANGED nonGateVars

-----------------------------------------------------------------------------
(* Tab collection: shopping_tool/browser.py and its tool handlers *)

NoBrowser == [id |-> 0, connected |-> FALSE]
NoContext == [id |-> 0, browser |-> 0]
Closed == "(closed)"

\* the urls a caller asks for, and the title of the document each serves
Urls == {"https://amazon.com/s?k=mouse", "https://amazon.com/dp/TEST"}
PageTitle(url) == IF url = "https://amazon.com/s?k=mouse" THEN "Search" ELSE "Product Page"

\* how a call that opens a page can end: the await that raises, if any
\* ("extract_fails": new_page returned, the element inventory after it raised)
Outcomes == {"ok", "start_fails", "launch_fails", "context_fails",
             "page_fails", "goto_fails", "extract_fails"}

\* BrowserManager.active_page: the 1-based position of the active page, 0 for None
ActivePage ==
    IF 0 <= active_tab_index /\ active_tab_index < Len(tabs)
    THEN active_tab_index + 1
    ELSE 0

\* _ensure_browser returns the running browser without launching
BrowserRunning == browser.id # 0 /\ browser.connected

\* whether pages can still be made in context c: its browser is the connected one
ContextUsable(c, b) == c.id # 0 /\ c.browser = b.id /\ b.connected

\* _ensure_browser, ending as outcome says: what it leaves in _playwright and
\* _browser, and whether it returned a browser (ok)
EnsureBrowser(outcome) ==
    IF BrowserRunning
    THEN [playwright |-> playwright, browser |-> browser, launches |-> launches,
          ok |-> TRUE]
    ELSE IF outcome = "start_fails"
    THEN [playwright |-> playwright, browser |-> browser, launches |-> launches,
          ok |-> FALSE]
    ELSE IF outcome = "launch_fails"
    THEN [playwright |-> "driver", browser |-> browser, launches |-> launches,
          ok |-> FALSE]
    ELSE [playwright |-> "driver", browser |-> [id |-> launches + 1, connected |-> TRUE],
          launches |-> launches + 1, ok |-> TRUE]

\* mutant: _ensure_context makes a context on every call
EnsureContextAlwaysNew(outcome) ==
    LET b == EnsureBrowser(outcome)
    IN IF b.ok /\ outcome # "context_fails"
       THEN [playwright |-> b.playwright, browser |-> b.browser,
             launches |-> b.launches,
             context |-> [id |-> contexts_created + 1, browser |-> b.browser.id],
             contexts_created |-> contexts_created + 1, ok |-> TRUE]
       ELSE [playwright |-> b.playwright, browser |-> b.browser,
             launches |-> b.launches,
             context |-> context, contexts_created |-> contexts_created,
             ok |-> FALSE]

\* _ensure_context, ending as outcome says: an existing context is returned as
\* it is; otherwise one is made in the browser _ensure_browser returns
EnsureContext(outcome) ==
    IF context.id # 0
    THEN [playwright |-> playwright, browser |-> browser, launches |-> launches,
          context |-> context, contexts_created |-> contexts_created, ok |-> TRUE]
    ELSE LET b == EnsureBrowser(outcome)
         IN IF b.ok /\ outcome # "context_fails"
            THEN [playwright |-> b.playwright, browser |-> b.browser,
                  launches |-> b.launches,
                  context |-> [id |-> contexts_created + 1, browser |-> b.browser.id],
                  contexts_created |-> contexts_created + 1, ok |-> TRUE]
            ELSE [playwright |-> b.playwright, browser |-> b.browser,
                  launches |-> b.launches,
                  context |-> context, contexts_created |-> contexts_created,
                  ok |-> FALSE]

\* the await at which outcome makes a new_page call raise is one the call reaches,
\* a context whose browser is gone makes no page, and the model's bounds hold
Reachable(outcome) ==
    LET c == EnsureContext(outcome)
    IN /\ outcome \in {"start_fails", "launch_fails"} => (context.id = 0 /\ ~BrowserRunning)
       /\ outcome = "context_fails" => context.id = 0
       /\ (c.ok /\ outcome # "page_fails") => ContextUsable(c.context, c.browser)
       /\ c.launches <= MaxLaunches
       /\ c.contexts_created <= MaxLaunches
       /\ (c.ok /\ outcome # "page_fails") => pages_created < MaxPages

\* mutant: the page is appended and made active before goto is awaited
NewPageAppendsBeforeGoto(url, outcome) ==
    LET c == EnsureContext(outcome)
        paged == c.ok /\ outcome # "page_fails"
    IN /\ Reachable(outcome)
       /\ playwright' = c.playwright
       /\ browser' = c.browser
       /\ launches' = c.launches
       /\ context' = c.context
       /\ contexts_created' = c.contexts_created
       /\ pages_created' = IF paged THEN pages_created + 1 ELSE pages_created
       /\ IF paged
          THEN /\ tabs' = Append(tabs, [id |-> pages_created + 1, url |-> url,
                                        closed |-> FALSE])
               /\ active_tab_index' = Len(tabs') - 1
          ELSE UNCHANGED <<tabs, active_tab_index>>

\* mutant: the new page is put at the front of the tab list
NewPageInsertsFirst(url, outcome) ==
    LET c == EnsureContext(outcome)
        paged == c.ok /\ outcome # "page_fails"
        loaded == paged /\ outcome # "goto_fails"
    IN /\ Reachable(outcome)
       /\ playwright' = c.playwright
       /\ browser' = c.browser
       /\ launches' = c.launches
       /\ context' = c.context
       /\ contexts_created' = c.contexts_created
       /\ pages_created' = IF paged THEN pages_created + 1 ELSE pages_created
       /\ IF loaded
          THEN /\ tabs' = <<[id |-> pages_created + 1, url |-> url,
                             closed |-> FALSE]>> \o tabs
               /\ active_tab_index' = 0
          ELSE UNCHANGED <<tabs, active_tab_index>>

\* BrowserManager.new_page, ending as outcome says: the page is appended and
\* made active only after goto and the settle delay have returned
NewPage(url, outcome) ==
    LET c == EnsureContext(outcome)
        paged == c.ok /\ outcome # "page_fails"
        loaded == paged /\ outcome # "goto_fails"
    IN /\ Reachable(outcome)
       /\ playwright' = c.playwright
       /\ browser' = c.browser
       /\ launches' = c.launches
       /\ context' = c.context
       /\ contexts_created' = c.contexts_created
       /\ pages_created' = IF paged THEN pages_created + 1 ELSE pages_created
       /\ IF loaded
          THEN /\ tabs' = Append(tabs, [id |-> pages_created + 1, url |-> url,
                                        closed |-> FALSE])
               /\ active_tab_index' = Len(tabs') - 1
          ELSE UNCHANGED <<tabs, active_tab_index>>

\* mutant: the new tab is opened in the background, the tab looked at stays active
OpenInNewTabBackground(url, outcome) ==
    LET c == EnsureContext(outcome)
        paged == c.ok /\ outcome # "page_fails"
        loaded == paged /\ outcome # "goto_fails"
    IN /\ Reachable(outcome)
       /\ playwright' = c.playwright
       /\ browser' = c.browser
       /\ launches' = c.launches
       /\ context' = c.context
       /\ contexts_created' = c.contexts_created
       /\ pages_created' = IF paged THEN pages_created + 1 ELSE pages_created
       /\ IF loaded
          THEN /\ tabs' = Append(tabs, [id |-> pages_created + 1, url |-> url,
                                        closed |-> FALSE])
               /\ active_tab_index' = IF active_tab_index >= 0 THEN active_tab_index
                                      ELSE Len(tabs') - 1
          ELSE UNCHANGED <<tabs, active_tab_index>>

\* BrowserManager.open_in_new_tab
OpenInNewTab(url, outcome) == NewPage(url, outcome)

\* mutant: the index is stored without the bounds check
SwitchTabUnchecked(index) ==
    /\ active_tab_index' = index
    /\ UNCHANGED <<playwright, browser, context, tabs,
                   launches, contexts_created, pages_created>>

\* BrowserManager.switch_tab
SwitchTab(index) ==
    /\ active_tab_index' = IF 0 <= index /\ index < Len(tabs) THEN index
                           ELSE active_tab_index
    /\ UNCHANGED <<playwright, browser, context, tabs,
                   launches, contexts_created, pages_created>>

\* what switch_tab returns: the 1-based position of the page, 0 for None
SwitchTabResult(index) == IF 0 <= index /\ index < Len(tabs) THEN index + 1 ELSE 0

\* mutant: only the title of an unreadable page is replaced, its url is kept
GetTabListKeepsUrl(ts, active) ==
    [k \in 1..Len(ts) |->
        [index |-> k - 1,
         url |-> ts[k].url,
         title |-> IF ts[k].closed THEN Closed ELSE PageTitle(ts[k].url),
         active |-> (k - 1 = active)]]

\* mutant: the active flag compares the 1-based position with the active index
GetTabListOffByOne(ts, active) ==
    [k \in 1..Len(ts) |->
        [index |-> k - 1,
         url |-> IF ts[k].closed THEN Closed ELSE ts[k].url,
         title |-> IF ts[k].closed THEN Closed ELSE PageTitle(ts[k].url),
         active |-> (k = active)]]

\* BrowserManager.get_tab_list over the tabs ts with active index active:
\* a page whose title cannot be read is listed as "(closed)"
GetTabList(ts, active) ==
    [k \in 1..Len(ts) |->
        [index |-> k - 1,
         url |-> IF ts[k].closed THEN Closed ELSE ts[k].url,
         title |-> IF ts[k].closed THEN Closed ELSE PageTitle(ts[k].url),
         active |-> (k - 1 = active)]]

\* _get_tab_header: the listing it renders, none when there is no tab
GetTabHeader(ts, active) == IF Len(ts) = 0 THEN <<>> ELSE GetTabList(ts, active)

\* the steps of BrowserManager.close, in the order it takes them
CloseSteps == <<"page", "context", "browser", "playwright">>

\* the steps close takes in this state: a page close per tab, and the close of
\* each of _context, _browser and _playwright that is set
CloseAttempts ==
    {st \in {"page", "context", "browser", "playwright"} :
        \/ st = "page" /\ Len(tabs) > 0
        \/ st = "context" /\ context.id # 0
        \/ st = "browser" /\ browser.id # 0
        \/ st = "playwright" /\ playwright # "None"}

\* mutant: only the page closes are wrapped in try/except
CloseCatchesPagesOnly == {"page"}

\* the steps of close that are wrapped in try / except Exception: pass
CloseCatches == {"page", "context", "browser", "playwright"}

\* how far close gets when the steps in fails (steps it takes) fail: the
\* position in CloseSteps of the first failing step whose fault is not caught,
\* 5 when close returns
CloseReaches(fails) ==
    IF fails \subseteq CloseCatches THEN 5
    ELSE IF CloseSteps[1] \in fails \ CloseCatches THEN 1
    ELSE IF CloseSteps[2] \in fails \ CloseCatches THEN 2
    ELSE IF CloseSteps[3] \in fails \ CloseCatches THEN 3
    ELSE 4

\* mutant: the pages are closed but the tab list is not cleared
CloseKeepsTabs(fails) ==
    LET reached == CloseReaches(fails)
    IN /\ tabs' = IF reached > 1
                  THEN [k \in 1..Len(tabs) |-> [tabs[k] EXCEPT !.closed = TRUE]]
                  ELSE tabs
       /\ active_tab_index' = IF reached > 1 THEN -1 ELSE active_tab_index
       /\ context' = IF reached > 2 THEN NoContext ELSE context
       /\ browser' = IF reached > 3 THEN NoBrowser ELSE browser
       /\ playwright' = IF reached > 4 THEN "None" ELSE playwright
       /\ UNCHANGED <<launches, contexts_created, pages_created>>

\* mutant: the tab collection is emptied but the active index is left as it was
CloseKeepsIndex(fails) ==
    LET reached == CloseReaches(fails)
    IN /\ tabs' = IF reached > 1 THEN <<>> ELSE tabs
       /\ active_tab_index' = active_tab_index
       /\ context' = IF reached > 2 THEN NoContext ELSE context
       /\ browser' = IF reached > 3 THEN NoBrowser ELSE browser
       /\ playwright' = IF reached > 4 THEN "None" ELSE playwright
       /\ UNCHANGED <<launches, contexts_created, pages_created>>

\* BrowserManager.close when the steps in fails fail: the pages are closed, then
\* _tabs is cleared and the index reset, then context, browser and driver are
\* closed and set to None in turn; a fault that is not caught ends it there
Close(fails) ==
    LET reached == CloseReaches(fails)
    IN /\ tabs' = IF reached > 1 THEN <<>> ELSE tabs
       /\ active_tab_index' = IF reached > 1 THEN -1 ELSE active_tab_index
       /\ context' = IF reached > 2 THEN NoContext ELSE context
       /\ browser' = IF reached > 3 THEN NoBrowser ELSE browser
       /\ playwright' = IF reached > 4 THEN "None" ELSE playwright
       /\ UNCHANGED <<launches, contexts_created, pages_created>>

\* what an answer shows of a listing here: each entry's index and active marker
Marks(list) == [k \in 1..Len(list) |-> [index |-> list[k].index, active |-> list[k].active]]

\* faults: the steps of a close call that failed
NoRet == [op |-> "none", status |-> "none", tab |-> -1, marks |-> <<>>, faults |-> {}]

\* extract_page_elements raises on a page that is closed
ExtractRaises(ts, pos) == ts[pos].closed

\* _handle_open_product_page (SearchAction.open_page): new_page, then the
\* element inventory; any fault is turned into an error answer
HandleOpenProductPage(url, outcome) ==
    /\ NewPage(url, outcome)
    /\ ret' = [NoRet EXCEPT !.op = "open_product_page",
                  !.status = IF outcome = "ok" THEN "ok" ELSE "error"]

\* _handle_open_link: open_in_new_tab, the element inventory, then the tab header
HandleOpenLink(url, outcome) ==
    /\ OpenInNewTab(url, outcome)
    /\ ret' = IF outcome = "ok"
              THEN [op |-> "open_link", status |-> "ok", tab |-> active_tab_index',
                    marks |-> Marks(GetTabHeader(tabs', active_tab_index')), faults |-> {}]
              ELSE [NoRet EXCEPT !.op = "open_link", !.status = "raised"]

\* _handle_switch_tab
HandleSwitchTab(index) ==
    /\ SwitchTab(index)
    /\ ret' = IF SwitchTabResult(index) = 0
              THEN [op |-> "switch_tab", status |-> "invalid", tab |-> index,
                    marks |-> Marks(GetTabList(tabs, active_tab_index')), faults |-> {}]
              ELSE IF ExtractRaises(tabs, SwitchTabResult(index))
              THEN [NoRet EXCEPT !.op = "switch_tab", !.status = "raised", !.tab = index]
              ELSE [op |-> "switch_tab", status |-> "ok", tab |-> index,
                    marks |-> Marks(GetTabHeader(tabs, active_tab_index')), faults |-> {}]

\* _handle_read_page: the inventory of the active page under the tab header
HandleReadPage ==
    /\ ret' = IF ActivePage = 0
              THEN [NoRet EXCEPT !.op = "read_page", !.status = "no_page"]
              ELSE IF ExtractRaises(tabs, ActivePage)
              THEN [NoRet EXCEPT !.op = "read_page", !.status = "raised"]
              ELSE [op |-> "read_page", status |-> "ok", tab |-> active_tab_index,
                    marks |-> Marks(GetTabHeader(tabs, active_tab_index)), faults |-> {}]
    /\ UNCHANGED sessionVars

\* main's shutdown path: BrowserManager.close, awaited in the finally block
HandleClose(fails) ==
    /\ Close(fails)
    /\ ret' = [NoRet EXCEPT !.op = "close",
                  !.status = IF CloseReaches(fails) = 5 THEN "ok" ELSE "raised",
                  !.faults = fails]

\* a page is closed from outside the tool (its window closed, a renderer crash)
PageCloses(k) ==
    /\ k \in 1..Len(tabs)
    /\ ~tabs[k].closed
    /\ tabs' = [tabs EXCEPT ![k].closed = TRUE]
    /\ UNCHANGED <<playwright, browser, context, active_tab_index,
                   launches, contexts_created, pages_created, ret>>

\* the browser process goes away: is_connected() turns false, its pages close
BrowserDisconnects ==
    /\ browser.id # 0
    /\ browser.connected
    /\ browser' = [browser EXCEPT !.connected = FALSE]
    /\ tabs' = [k \in 1..Len(tabs) |-> [tabs[k] EXCEPT !.closed = TRUE]]
    /\ UNCHANGED <<playwright, context, active_tab_index,
                   launches, contexts_created, pages_created, ret>>

\* the indices a caller passes to switch_tab
TabIndexArgs == -1..MaxPages

TabsInit ==
    /\ playwright = "None"
    /\ browser = NoBrowser
    /\ context = NoContext
    /\ tabs = <<>>
    /\ active_tab_index = -1
    /\ launches = 0
    /\ contexts_created = 0
    /\ pages_created = 0
    /\ ret = NoRet

OpenProductPage ==
    /\ \E url \in Urls, outcome \in Outcomes : HandleOpenProductPage(url, outcome)
    /\ UNCHANGED nonTabVars

OpenLink ==
    /\ \E url \in Urls, outcome \in Outcomes : HandleOpenLink(url, outcome)
    /\ UNCHANGED nonTabVars

SwitchToTab ==
    /\ \E index \in TabIndexArgs : HandleSwitchTab(index)
    /\ UNCHANGED nonTabVars

ReadPage ==
    /\ HandleReadPage
    /\ UNCHANGED nonTabVars

Shutdown ==
    /\ \E fails \in SUBSET CloseAttempts : HandleClose(fails)
    /\ UNCHANGED nonTabVars

PageClosed ==
    /\ \E k \in 1..Len(tabs) : PageCloses(k)
    /\ UNCHANGED nonTabVars

BrowserGone ==
    /\ BrowserDisconnects
    /\ UNCHANGED nonTabVars

-----------------------------------------------------------------------------
(* Page actions: click, fill, select_option, scroll, go_back and            *)
(* extract_page_elements of shopping_tool/browser.py. A call is made on a   *)
(* page whose behaviour during the call is the call's input: whether the    *)
(* selector resolves, whether the element is visible, and which await, if   *)
(* any, raises.                                                             *)

NoFault == "none"

\* the two ways click looks the element up: page.query_selector, or
\* page.locator for the :has-text( and :has( dialect
ClickDialects == {"css", "has-text"}

\* the awaits of each operation that can raise
ClickFaults == {NoFault, "count", "element_handle", "query_selector", "is_visible",
                "scroll_into_view_if_needed", "click"}
FillFaults == {NoFault, "query_selector", "is_visible", "scroll_js", "click_js",
               "clear", "type", "press"}
SelectFaults == {NoFault, "query_selector", "select_option"}
ScrollFaults == {NoFault, "evaluate"}
GoBackFaults == {NoFault, "go_back"}
ExtractFaults == {NoFault, "content", "evaluate"}

\* the page's behaviour during one call: found and visible are what the lookup
\* and is_visible() answer when they return, fault is the await that raises,
\* fallback_fails whether the script-level click raises too
NoEnv == [dialect |-> "css", found |-> FALSE, visible |-> FALSE, fault |-> NoFault,
          fallback_fails |-> FALSE]

\* how a call ends: with a value, or with a fault that reaches the caller;
\* clicks lists the click attempts made on the element, in order
Returned(value, clicks) == [returned |-> value, raised |-> FALSE, clicks |-> clicks]
Raised(clicks) == [returned |-> "(fault)", raised |-> TRUE, clicks |-> clicks]

\* mutant: the element is clicked without asking whether it is visible
ClickElementNoVisibilityCheck(e) ==
    IF e.fault = "scroll_into_view_if_needed" THEN Raised(<<>>)
    ELSE IF e.fault # "click" THEN Returned("True", <<"native">>)
    ELSE IF e.fallback_fails THEN Raised(<<"native", "forced">>)
    ELSE Returned("True", <<"native", "forced">>)

\* click, from the element on: visibility check, scroll into view, the native
\* click and, in the except branch of its try, the script-level click
ClickElement(e) ==
    IF e.fault = "is_visible" THEN Raised(<<>>)
    ELSE IF ~e.visible THEN Returned("False", <<>>)
    ELSE IF e.fault = "scroll_into_view_if_needed" THEN Raised(<<>>)
    ELSE IF e.fault # "click" THEN Returned("True", <<"native">>)
    ELSE IF e.fallback_fails THEN Raised(<<"native", "forced">>)
    ELSE Returned("True", <<"native", "forced">>)

\* the body of click's outer try: the lookup in the selector's dialect
ClickBody(e) ==
    IF e.dialect = "has-text"
    THEN IF e.fault = "count" THEN Raised(<<>>)
         ELSE IF ~e.found THEN Returned("False", <<>>)
         ELSE IF e.fault = "element_handle" THEN Raised(<<>>)
         ELSE ClickElement(e)
    ELSE IF e.fault = "query_selector" THEN Raised(<<>>)
         ELSE IF ~e.found THEN Returned("False", <<>>)
         ELSE ClickElement(e)

\* except Exception: return False
CatchAll(r) == IF r.raised THEN Returned("False", r.clicks) ELSE r

\* BrowserManager.click
Click(e) == CatchAll(ClickBody(e))

\* the body of fill's try
FillBody(e) ==
    IF e.fault = "query_selector" THEN Raised(<<>>)
    ELSE IF ~e.found THEN Returned("False", <<>>)
    ELSE IF e.fault = "is_visible" THEN Raised(<<>>)
    ELSE IF ~e.visible THEN Returned("False", <<>>)
    ELSE IF e.fault = "scroll_js" THEN Raised(<<>>)
    ELSE IF e.fault = "click_js" THEN Raised(<<"forced">>)
    ELSE IF e.fault \in {"clear", "type", "press"} THEN Raised(<<"forced">>)
    ELSE Returned("True", <<"forced">>)

\* BrowserManager.fill
Fill(e) == CatchAll(FillBody(e))

\* the body of select_option's try
SelectOptionBody(e) ==
    IF e.fault = "query_selector" THEN Raised(<<>>)
    ELSE IF ~e.found THEN Returned("False", <<>>)
    ELSE IF e.fault = "select_option" THEN Raised(<<>>)
    ELSE Returned("True", <<>>)

\* BrowserManager.select_option
SelectOption(e) == CatchAll(SelectOptionBody(e))

\* BrowserManager.scroll: page.evaluate is awaited outside any try
Scroll(e) == IF e.fault = "evaluate" THEN Raised(<<>>) ELSE Returned("None", <<>>)

\* BrowserManager.go_back: page.go_back is awaited outside any try
GoBack(e) == IF e.fault = "go_back" THEN Raised(<<>>) ELSE Returned("url", <<>>)

\* BrowserManager.extract_page_elements: page.content and page.evaluate are
\* awaited outside any try
ExtractPageElements(e) ==
    IF e.fault \in {"content", "evaluate"} THEN Raised(<<>>)
    ELSE Returned("elements", <<>>)

\* the record of a call: the operation, the page's behaviour, how it ended
Call(op, e, r) == [op |-> op, env |-> e, returned |-> r.returned, raised |-> r.raised,
                   clicks |-> r.clicks]

ActInit == act = Call("none", NoEnv, Returned("None", <<>>))

ClickCall ==
    /\ \E d \in ClickDialects, f \in BOOLEAN, v \in BOOLEAN, x \in ClickFaults,
          ff \in BOOLEAN :
          LET e == [dialect |-> d, found |-> f, visible |-> v, fault |-> x,
                    fallback_fails |-> ff]
          IN act' = Call("click", e, Click(e))
    /\ UNCHANGED nonActVars

FillCall ==
    /\ \E f \in BOOLEAN, v \in BOOLEAN, x \in FillFaults :
          LET e == [NoEnv EXCEPT !.found = f, !.visible = v, !.fault = x]
          IN act' = Call("fill", e, Fill(e))
    /\ UNCHANGED nonActVars

SelectOptionCall ==
    /\ \E f \in BOOLEAN, x \in SelectFaults :
          LET e == [NoEnv EXCEPT !.found = f, !.fault = x]
          IN act' = Call("select_option", e, SelectOption(e))
    /\ UNCHANGED nonActVars

ScrollCall ==
    /\ \E x \in ScrollFaults :
          LET e == [NoEnv EXCEPT !.fault = x]
          IN act' = Call("scroll", e, Scroll(e))
    /\ UNCHANGED nonActVars

GoBackCall ==
    /\ \E x \in GoBackFaults :
          LET e == [NoEnv EXCEPT !.fault = x]
          IN act' = Call("go_back", e, GoBack(e))
    /\ UNCHANGED nonActVars

ExtractCall ==
    /\ \E x \in ExtractFaults :
          LET e == [NoEnv EXCEPT !.fault = x]
          IN act' = Call("extract_page_elements", e, ExtractPageElements(e))
    /\ UNCHANGED nonActVars

-----------------------------------------------------------------------------
(* Element resolver: shopping_tool/element_resolver.py. Descriptions, urls   *)
(* and replies are sequences of characters; a JSON document inside a reply   *)
(* is one element of the sequence, named by its text.                        *)

\* whether p occurs in s (p in s)
Contains(s, p) ==
    \E i \in 1..(Len(s) - Len(p) + 1) : SubSeq(s, i, i + Len(p) - 1) = p

\* the position of the first occurrence of p in s, 0 if there is none (str.find + 1)
Find(s, p) ==
    LET hits == {i \in 1..(Len(s) - Len(p) + 1) : SubSeq(s, i, i + Len(p) - 1) = p}
    IN IF hits = {} THEN 0 ELSE SetMin(hits)

\* s.split(p)[0]: s up to the first occurrence of p
Before(s, p) == IF Find(s, p) = 0 THEN s ELSE SubSeq(s, 1, Find(s, p) - 1)

\* what follows the first occurrence of p in s (p occurs in s)
AfterFirst(s, p) == SubSeq(s, Find(s, p) + Len(p), Len(s))

\* RETAILER_URL_PATTERNS, in the order the dict is written
RETAILER_URL_PATTERNS == <<
    [retailer |-> "amazon", patterns |-> {<<"a", "m", "a", "z", "o", "n", ".", "c", "o", "m">>,
         <<"a", "m", "a", "z", "o", "n", ".", "c", "o", ".", "u", "k">>,
         <<"a", "m", "a", "z", "o", "n", ".", "c", "a">>}],
    [retailer |-> "bestbuy", patterns |-> {<<"b", "e", "s", "t", "b", "u", "y", ".", "c", "o", "m">>}],
    [retailer |-> "walmart", patterns |-> {<<"w", "a", "l", "m", "a", "r", "t", ".", "c", "o", "m">>}],
    [retailer |-> "target", patterns |-> {<<"t", "a", "r", "g", "e", "t", ".", "c", "o", "m">>}],
    [retailer |-> "newegg", patterns |-> {<<"n", "e", "w", "e", "g", "g", ".", "c", "o", "m">>}],
    [retailer |-> "ebay", patterns |-> {<<"e", "b", "a", "y", ".", "c", "o", "m">>}] >>

\* _detect_retailer: the first retailer one of whose patterns occurs in the
\* lower-cased url, "None" when there is none
DetectRetailer(url) ==
    LET url_lower == Lower(url)
        hits == {i \in 1..Len(RETAILER_URL_PATTERNS) :
                    \E p \in RETAILER_URL_PATTERNS[i].patterns : Contains(url_lower, p)}
    IN IF hits = {} THEN "None" ELSE RETAILER_URL_PATTERNS[SetMin(hits)].retailer

\* KNOWN_SELECTORS: retailer -> (description -> selector)
KNOWN_SELECTORS ==
    [amazon |->
        (<<"s", "e", "a", "r", "c", "h", " ", "b", "o", "x">> :> "#twotabsearchtextbox") @@
        (<<"s", "e", "a", "r", "c", "h", " ", "f", "i", "e", "l", "d">> :> "#twotabsearchtextbox") @@
        (<<"s", "e", "a", "r", "c", "h", " ", "i", "n", "p", "u", "t">> :> "#twotabsearchtextbox") @@
        (<<"s", "e", "a", "r", "c", "h", " ", "b", "a", "r">> :> "#twotabsearchtextbox") @@
        (<<"s", "e", "a", "r", "c", "h", " ", "a", "m", "a", "z", "o", "n">> :> "#twotabsearchtextbox") @@
        (<<"s", "e", "a", "r", "c", "h", " ", "b", "u", "t", "t", "o", "n">> :> "#nav-search-submit-button") @@
        (<<"s", "u", "b", "m", "i", "t", " ", "s", "e", "a", "r", "c", "h">> :> "#nav-search-submit-button") @@
        (<<"a", "d", "d", " ", "t", "o", " ", "c", "a", "r", "t">> :> "#add-to-cart-button") @@
        (<<"a", "d", "d", " ", "t", "o", " ", "c", "a", "r", "t", " ", "b", "u", "t", "t", "o", "n">> :> "#add-to-cart-button") @@
        (<<"b", "u", "y", " ", "n", "o", "w">> :> "#buy-now-button") @@
        (<<"b", "u", "y", " ", "n", "o", "w", " ", "b", "u", "t", "t", "o", "n">> :> "#buy-now-button") @@
        (<<"q", "u", "a", "n", "t", "i", "t", "y">> :> "select#quantity") @@
        (<<"q", "u", "a", "n", "t", "i", "t", "y", " ", "s", "e", "l", "e", "c", "t", "o", "r">> :> "select#quantity") @@
        (<<"q", "u", "a", "n", "t", "i", "t", "y", " ", "d", "r", "o", "p", "d", "o", "w", "n">> :> "select#quantity") @@
        (<<"s", "e", "e", " ", "a", "l", "l", " ", "r", "e", "v", "i", "e", "w", "s">> :> "a[data-hook=\"see-all-reviews-link-foot\"]") @@
        (<<"a", "l", "l", " ", "r", "e", "v", "i", "e", "w", "s">> :> "a[data-hook=\"see-all-reviews-link-foot\"]") @@
        (<<"r", "e", "v", "i", "e", "w", "s", " ", "l", "i", "n", "k">> :> "a[data-hook=\"see-all-reviews-link-foot\"]") @@
        (<<"n", "e", "x", "t", " ", "p", "a", "g", "e">> :> "ul.a-pagination li.a-last a") @@
        (<<"n", "e", "x", "t">> :> "ul.a-pagination li.a-last a"),
     bestbuy |->
        (<<"s", "e", "a", "r", "c", "h", " ", "b", "o", "x">> :> "#gh-search-input") @@
        (<<"s", "e", "a", "r", "c", "h", " ", "f", "i", "e", "l", "d">> :> "#gh-search-input") @@
        (<<"a", "d", "d", " ", "t", "o", " ", "c", "a", "r", "t">> :> "button.add-to-cart-button") @@
        (<<"a", "d", "d", " ", "t", "o", " ", "c", "a", "r", "t", " ", "b", "u", "t", "t", "o", "n">> :> "button.add-to-cart-button"),
     walmart |->
        (<<"s", "e", "a", "r", "c", "h", " ", "b", "o", "x">> :> "input[type=\"search\"]") @@
        (<<"s", "e", "a", "r", "c", "h", " ", "f", "i", "e", "l", "d">> :> "input[type=\"search\"]") @@
        (<<"a", "d", "d", " ", "t", "o", " ", "c", "a", "r", "t">> :> "button[data-testid=\"add-to-cart-button\"]") @@
        (<<"a", "d", "d", " ", "t", "o", " ", "c", "a", "r", "t", " ", "b", "u", "t", "t", "o", "n">> :> "button[data-testid=\"add-to-cart-button\"]")]

\* mutant: the description is looked up as written, without lower()
FastResolveNoLower(description, url) ==
    LET retailer == DetectRetailer(url)
    IN IF retailer = "None" \/ retailer \notin DOMAIN KNOWN_SELECTORS
       THEN "None"
       ELSE LET desc_lower == Strip(description)
            IN IF desc_lower \in DOMAIN KNOWN_SELECTORS[retailer]
               THEN KNOWN_SELECTORS[retailer][desc_lower]
               ELSE "None"

\* mutant: a description that begins with a table key is taken for the key
FastResolvePrefix(description, url) ==
    LET retailer == DetectRetailer(url)
    IN IF retailer = "None" \/ retailer \notin DOMAIN KNOWN_SELECTORS
       THEN "None"
       ELSE LET desc_lower == Strip(Lower(description))
                keys == {k \in DOMAIN KNOWN_SELECTORS[retailer] :
                            Len(k) <= Len(desc_lower) /\ SubSeq(desc_lower, 1, Len(k)) = k}
            IN IF keys # {}
               THEN KNOWN_SELECTORS[retailer][CHOOSE k \in keys : TRUE]
               ELSE "None"

\* _fast_resolve: the table's selector for description.lower().strip(), "None"
\* when no retailer is detected, the retailer has no table or the key is absent
FastResolve(description, url) ==
    LET retailer == DetectRetailer(url)
    IN IF retailer = "None" \/ retailer \notin DOMAIN KNOWN_SELECTORS
       THEN "None"
       ELSE LET desc_lower == Strip(Lower(description))
            IN IF desc_lower \in DOMAIN KNOWN_SELECTORS[retailer]
               THEN KNOWN_SELECTORS[retailer][desc_lower]
               ELSE "None"

\* the number of passes of the retry loop (range(3))
MaxAttempts == 3

\* the backquote character, and the two fences made of it
Backquote == "(backquote)"
Fence == <<Backquote, Backquote, Backquote>>
FenceJson == Fence \o <<"j", "s", "o", "n">>

\* the JSON documents a reply is built from, by their text, and what json.loads
\* makes of each; "(absent)" marks a key the object does not have. A stretch of
\* a document's text that holds no backquote is one element of the sequence; the
\* last two documents have a fenced word inside their reason string.
JsonDocs ==
    (<<"{found: true, selector: #buy}">> :>
        [kind |-> "object", found |-> "true", selector |-> "#buy"]) @@
    (<<"{found: true, selector: a.next}">> :>
        [kind |-> "object", found |-> "true", selector |-> "a.next"]) @@
    (<<"{found: true}">> :>
        [kind |-> "object", found |-> "true", selector |-> "(absent)"]) @@
    (<<"{found: false, selector: }">> :>
        [kind |-> "object", found |-> "false", selector |-> ""]) @@
    (<<"{reason: none}">> :>
        [kind |-> "object", found |-> "(absent)", selector |-> "(absent)"]) @@
    (<<"[#buy]">> :>
        [kind |-> "array", found |-> "(absent)", selector |-> "(absent)"]) @@
    ((<<"{found: true, selector: #buy, reason: in the ">> \o Fence \o <<"html">>
         \o Fence \o <<" block}">>) :>
        [kind |-> "object", found |-> "true", selector |-> "#buy"]) @@
    ((<<"{found: false, selector: , reason: not in the ">> \o Fence \o <<"html">>
         \o Fence \o <<" block}">>) :>
        [kind |-> "object", found |-> "false", selector |-> ""])

\* the forms a reply gives a document: bare, padded with whitespace, fenced,
\* fenced with the json tag, and fenced inside prose
Bare(doc) == doc
Padded(doc) == <<"\n">> \o doc \o <<" ", "\n">>
Fenced(doc) == Fence \o <<"\n">> \o doc \o <<"\n">> \o Fence
FencedJson(doc) == FenceJson \o <<"\n">> \o doc \o <<"\n">> \o Fence
FencedInProse(doc) == <<"o", "k", ":", "\n">> \o FenceJson \o doc \o Fence \o <<"\n", "o", "k">>

\* what the transport does in one attempt: it times out, fails, or answers
NoReply == [kind |-> "none", content |-> <<>>]
Replies ==
    {[kind |-> "timeout", content |-> <<>>], [kind |-> "error", content |-> <<>>],
     [kind |-> "content", content |-> <<>>],
     [kind |-> "content", content |-> <<"n", "o", " ", "j", "s", "o", "n">>]}
      \cup {[kind |-> "content", content |-> c] :
               c \in UNION {{Bare(doc), Padded(doc), Fenced(doc), FencedJson(doc),
                             FencedInProse(doc)} : doc \in DOMAIN JsonDocs}}

\* the text handed to json.loads: what stands between the first json fence (or,
\* failing that, the first fence) and the next fence; the whole reply when it
\* has no fence
ExtractJson(content) ==
    IF Contains(content, FenceJson)
    THEN Before(AfterFirst(content, FenceJson), Fence)
    ELSE IF Contains(content, Fence)
    THEN Before(AfterFirst(content, Fence), Fence)
    ELSE content

\* json.loads(text.strip()): the document, or a JSONDecodeError
JsonLoads(text) ==
    LET stripped == Strip(text)
    IN IF stripped \in DOMAIN JsonDocs
       THEN JsonDocs[stripped]
       ELSE [kind |-> "JSONDecodeError", found |-> "(absent)", selector |-> "(absent)"]

\* how a pass of the loop ends: with a return value, or with a retry after a sleep
Return(value) == [done |-> TRUE, result |-> value, sleep |-> 0]
\* a retry loop that gives up after the second failure
RetryTwice(attempt, sleep) ==
    IF attempt < MaxAttempts - 2
    THEN [done |-> FALSE, result |-> "(pending)", sleep |-> sleep]
    ELSE [done |-> TRUE, result |-> "None", sleep |-> 0]
Retry(attempt, sleep) ==
    IF attempt < MaxAttempts - 1
    THEN [done |-> FALSE, result |-> "(pending)", sleep |-> sleep]
    ELSE [done |-> TRUE, result |-> "None", sleep |-> 0]

\* a backoff that does not grow with the attempt
BackoffConstant(attempt) == 2

\* the linear backoff before the next attempt
Backoff(attempt) == (attempt + 1) * 2

\* a loop body that takes an object without the found key for a malformed reply
OnDataRetriesMissingFound(data, attempt) ==
    IF data.kind = "JSONDecodeError" THEN Retry(attempt, Backoff(attempt))
    ELSE IF data.kind # "object" THEN Retry(attempt, Backoff(attempt))
    ELSE IF data.found = "(absent)" THEN Retry(attempt, Backoff(attempt))
    ELSE IF data.found = "true"
    THEN Return(IF data.selector = "(absent)" THEN "" ELSE data.selector)
    ELSE Return("None")

\* the loop body from json.loads on: a decode error and any other fault
\* (data.get on a document that is no object) retry after the backoff, found
\* returns the selector ("" when the object has none), anything else returns None
OnData(data, attempt) ==
    IF data.kind = "JSONDecodeError" THEN Retry(attempt, Backoff(attempt))
    ELSE IF data.kind # "object" THEN Retry(attempt, Backoff(attempt))
    ELSE IF data.found = "true"
    THEN Return(IF data.selector = "(absent)" THEN "" ELSE data.selector)
    ELSE Return("None")

\* one pass of the retry loop of resolve_selector on the transport's reply
LoopBody(reply, attempt) ==
    IF reply.kind = "timeout" THEN Retry(attempt, 0)
    ELSE IF reply.kind = "error" THEN Retry(attempt, Backoff(attempt))
    ELSE IF reply.content = <<>> THEN Retry(attempt, Backoff(attempt))
    ELSE OnData(JsonLoads(ExtractJson(reply.content)), attempt)

\* the descriptions and page urls resolution is called with, and whether
\* OPENROUTER_API_KEY is set
Descriptions ==
    {<<"A", "d", "d", " ", "t", "o", " ", "C", "a", "r", "t">>,
     <<" ", " ", "a", "d", "d", " ", "t", "o", " ", "c", "a", "r", "t", " ", "\n">>,
     <<"a", "d", "d", " ", "t", "o", " ", "b", "a", "s", "k", "e", "t">>,
     <<"s", "e", "a", "r", "c", "h", " ", "a", "m", "a", "z", "o", "n">>,
     <<"a", "d", "d", " ", "t", "o", " ", "c", "a", "r", "t", " ", "n", "o", "w">>,
     <<"S", "e", "a", "r", "c", "h", " ", " ", "B", "o", "x">>}
PageUrls ==
    {<<"h", "t", "t", "p", "s", ":", "/", "/", "a", "m", "a", "z", "o", "n", ".", "c", "o", "m", "/", "d", "p", "/", "1">>,
     <<"h", "t", "t", "p", "s", ":", "/", "/", "W", "W", "W", ".", "A", "M", "A", "Z", "O", "N", ".", "C", "O", ".", "U", "K", "/", "x">>,
     <<"h", "t", "t", "p", "s", ":", "/", "/", "b", "e", "s", "t", "b", "u", "y", ".", "c", "o", "m", "/", "p">>,
     <<"h", "t", "t", "p", "s", ":", "/", "/", "t", "a", "r", "g", "e", "t", ".", "c", "o", "m", "/", "p">>,
     <<"h", "t", "t", "p", "s", ":", "/", "/", "s", "h", "o", "p", ".", "e", "x", "a", "m", "p", "l", "e", "/">>,
     <<>>}

\* _fast_resolve and the loop body on the model's inputs, computed once
FastResolveTable ==
    [description \in Descriptions, url \in PageUrls |-> FastResolve(description, url)]
LoopBodyTable ==
    [reply \in Replies, attempt \in 0..(MaxAttempts - 1) |-> LoopBody(reply, attempt)]

\* max_length
MaxLength == 100000

\* len("<body")
BodyTagLen == 5

\* what str.find returns when the tag is not in the markup
NotFound == -1

\* the markups of the model: lengths around max_length and its multiples, with
\* the tag absent, at the start, or at a place where it fits
MarkupLengths ==
    {0, 1, BodyTagLen, MaxLength - 1, MaxLength, MaxLength + 1,
     MaxLength + BodyTagLen, MaxLength + BodyTagLen + 1, 2 * MaxLength - 1,
     2 * MaxLength, 2 * MaxLength + 1, 2 * MaxLength + BodyTagLen,
     3 * MaxLength, 3 * MaxLength + 1}
BodyStarts ==
    {NotFound, 0, 1, BodyTagLen, MaxLength - BodyTagLen - 1, MaxLength - BodyTagLen,
     MaxLength - 1, MaxLength, MaxLength + 1, 2 * MaxLength - BodyTagLen,
     2 * MaxLength - 1, 2 * MaxLength, 2 * MaxLength + 1}
Markups ==
    {[len |-> n, body_start |-> b] : n \in MarkupLengths, b \in {NotFound}}
    \cup UNION {{[len |-> n, body_start |-> b] :
                    b \in {c \in BodyStarts : c >= 0 /\ c + BodyTagLen <= n}} :
                n \in MarkupLengths}

Min(a, b) == IF a <= b THEN a ELSE b

NoMarkup == [len |-> 0, body_start |-> NotFound, start |-> 0, stop |-> 0,
             marker |-> FALSE]

\* the resolver before any call
NoResolution ==
    [pc |-> "idle", description |-> <<>>, url |-> <<>>, key |-> FALSE,
     constructed |-> FALSE, attempt |-> 0, calls |-> 0, slept |-> 0,
     reply |-> NoReply, result |-> "None", markup |-> NoMarkup]

\* a resolve_selector that asks for the provider before it looks at the table
ResolveSelectorProviderFirst(description, url, key) ==
    LET fast_result == FastResolveTable[description, url]
        call == [NoResolution EXCEPT !.description = description, !.url = url,
                                     !.key = key]
    IN IF ~key
       THEN [call EXCEPT !.pc = "done", !.result = "None"]
       ELSE IF fast_result # "None"
       THEN [call EXCEPT !.pc = "done", !.result = fast_result]
       ELSE [call EXCEPT !.pc = "loop", !.constructed = TRUE, !.result = "(pending)"]

\* resolve_selector up to the retry loop: the fast path returns the table's
\* selector; on a miss get_provider is called, which raises without an API key
ResolveSelector(description, url, key) ==
    LET fast_result == FastResolveTable[description, url]
        call == [NoResolution EXCEPT !.description = description, !.url = url,
                                     !.key = key]
    IN IF fast_result # "None"
       THEN [call EXCEPT !.pc = "done", !.result = fast_result]
       ELSE IF ~key
       THEN [call EXCEPT !.pc = "done", !.result = "None"]
       ELSE [call EXCEPT !.pc = "loop", !.constructed = TRUE, !.result = "(pending)"]

\* one attempt: provider.run is awaited once, then the loop body runs on its reply
ResolveAttempt(r, reply) ==
    LET end == LoopBodyTable[reply, r.attempt]
    IN [r EXCEPT !.calls = r.calls + 1,
                 !.reply = reply,
                 !.slept = r.slept + end.sleep,
                 !.result = end.result,
                 !.pc = IF end.done THEN "done" ELSE "loop",
                 !.attempt = IF end.done THEN r.attempt ELSE r.attempt + 1]

ResolverInit == rs = NoResolution

Resolve ==
    /\ rs.pc # "loop"
    /\ \E description \in Descriptions, url \in PageUrls, key \in BOOLEAN :
          rs' = ResolveSelector(description, url, key)
    /\ UNCHANGED nonResolverVars

TransportReplies ==
    /\ rs.pc = "loop"
    /\ \E reply \in Replies : rs' = ResolveAttempt(rs, reply)
    /\ UNCHANGED nonResolverVars

-----------------------------------------------------------------------------
(* The markup in the prompt: resolve_selector cuts the page's html to size  *)
(* before it puts it into the prompt of the transport call. A markup is     *)
(* given by its length and by what page_html.find("<body") returns on it;   *)
(* what is sent is the slice [start, stop) of it, with or without the       *)
(* marker appended.                                                         *)

\* mutant: a markup of exactly max_length characters is cut as well
PromptHtmlInclusive(len, body_start) ==
    IF len >= MaxLength
    THEN LET start == IF body_start > 0 THEN body_start ELSE 0
         IN [len |-> len, body_start |-> body_start, start |-> start,
             stop |-> Min(start + MaxLength, len), marker |-> TRUE]
    ELSE [len |-> len, body_start |-> body_start, start |-> 0, stop |-> len,
          marker |-> FALSE]

\* the page_html that goes into the prompt: a markup longer than max_length is
\* sliced from body_start when find returned a position above 0 and from
\* the start otherwise, max_length characters or up to its end, and the
\* marker is appended
PromptHtml(len, body_start) ==
    IF len > MaxLength
    THEN LET start == IF body_start > 0 THEN body_start ELSE 0
         IN [len |-> len, body_start |-> body_start, start |-> start,
             stop |-> Min(start + MaxLength, len), marker |-> TRUE]
    ELSE [len |-> len, body_start |-> body_start, start |-> 0, stop |-> len,
          marker |-> FALSE]

\* resolve_selector builds the prompt for a page with the markup m
PromptBuilt ==
    /\ rs.pc # "loop"
    /\ \E m \in Markups :
          rs' = [NoResolution EXCEPT !.markup = PromptHtml(m.len, m.body_start)]
    /\ UNCHANGED nonResolverVars

-----------------------------------------------------------------------------
(* The dispatcher: call_tool of shopping_tool/server.py and the handlers of *)
(* the page tools. A handler's inputs are the call's arguments, what the    *)
(* resolver answers, and how the page behaves during the call.              *)

\* the names call_tool knows, and two it does not
ToolNames ==
    {"setup_profile", "search_products", "compare_prices", "get_product_details",
     "open_product_page", "add_to_cart", "preview_checkout", "confirm_purchase",
     "read_page", "click_element", "type_text", "select_option", "scroll_page",
     "go_back", "open_link", "switch_tab"}
UnknownNames == {"close_tab", ""}

\* the tools that act on the active page, those of them that take a
\* description, and the tool whose navigation failure reaches call_tool
PageTools == {"read_page", "click_element", "type_text", "select_option",
              "scroll_page", "go_back"}
DescriptionTools == {"click_element", "type_text", "select_option"}
TabTools == {"open_link"}

\* the BrowserManager primitive a tool invokes on the page
Primitive ==
    [name \in PageTools |->
        CASE name = "click_element" -> "click"
          [] name = "type_text" -> "fill"
          [] name = "select_option" -> "select_option"
          [] name = "scroll_page" -> "scroll"
          [] name = "go_back" -> "go_back"
          [] OTHER -> "none"]
Primitives == {"click", "fill", "select_option", "scroll", "go_back"}

\* what resolve_selector hands back: None, an empty selector, or a selector
Selectors == {"None", "", "#buy"}

\* how the page behaves towards each primitive during a call: the element is
\* missing, visible or hidden, or one of the primitive's awaits raises
Visible == [NoEnv EXCEPT !.found = TRUE, !.visible = TRUE]
PageBehaviours ==
    [primitive \in Primitives |->
        CASE primitive = "click" ->
               {NoEnv, Visible, [Visible EXCEPT !.visible = FALSE],
                [Visible EXCEPT !.fault = "click"],
                [Visible EXCEPT !.fault = "click", !.fallback_fails = TRUE]}
          [] primitive = "fill" ->
               {NoEnv, Visible, [Visible EXCEPT !.visible = FALSE],
                [Visible EXCEPT !.fault = "type"]}
          [] primitive = "select_option" ->
               {NoEnv, Visible, [Visible EXCEPT !.fault = "select_option"]}
          [] primitive = "scroll" -> {NoEnv, [NoEnv EXCEPT !.fault = "evaluate"]}
          [] OTHER -> {NoEnv, [NoEnv EXCEPT !.fault = "go_back"]}]

\* the inputs of a call: args_ok is whether the arguments hold the keys the
\* handler indexes, extract and reextract the await of the first and of the
\* second extract_page_elements that raises, load_fault whether
\* wait_for_load_state raises
NoInput ==
    [args_ok |-> TRUE, extract |-> NoFault, selector |-> "None", page |-> NoEnv,
     load_fault |-> FALSE, reextract |-> NoFault]

\* how a handler ends: it returns its text, or a fault leaves it; steps lists
\* the calls it made on the browser manager and the resolver, in order
Answer(text, steps) == [text |-> text, raised |-> FALSE, steps |-> steps]
Fault(steps) == [text |-> "(fault)", raised |-> TRUE, steps |-> steps]
NoHandler == Answer("(none)", <<>>)

\* the texts a handler answers with
NoPageText == "No browser page is open"
CouldNotFindText == "Could not find, page has counts"

\* the tail of a handler that reports the page: extract_page_elements, the tab
\* header, the summary
Report(text, steps, fault) ==
    IF ExtractPageElements([NoEnv EXCEPT !.fault = fault]).raised
    THEN Fault(Append(steps, "extract"))
    ELSE Answer(text, steps \o <<"extract", "tab_header">>)

\* _handle_read_page
ReadPageTool(hasPage, i) ==
    IF ~hasPage THEN Answer(NoPageText, <<>>)
    ELSE Report("page", <<>>, i.extract)

\* the primitive of a description tool on the page
Invoke(primitive, e) ==
    CASE primitive = "click" -> Click(e)
      [] primitive = "fill" -> Fill(e)
      [] primitive = "select_option" -> SelectOption(e)
      [] primitive = "scroll" -> Scroll(e)
      [] OTHER -> GoBack(e)

\* mutant: the primitive is invoked with whatever the resolver handed back
ResolveThenActUnchecked(primitive, i) ==
    IF ExtractPageElements([NoEnv EXCEPT !.fault = i.extract]).raised
    THEN Fault(<<"extract">>)
    ELSE IF Invoke(primitive, i.page).returned # "True"
    THEN Answer("failed", <<"extract", "resolve", primitive>>)
    ELSE Answer("done", <<"extract", "resolve", primitive>>)

\* what _handle_click_element, _handle_type_text and _handle_select_option
\* share: the inventory, the resolver, the test of its answer, the primitive
ResolveThenAct(primitive, i) ==
    IF ExtractPageElements([NoEnv EXCEPT !.fault = i.extract]).raised
    THEN Fault(<<"extract">>)
    ELSE IF i.selector \in {"None", ""}
    THEN Answer(CouldNotFindText, <<"extract", "resolve">>)
    ELSE IF Invoke(primitive, i.page).returned # "True"
    THEN Answer("failed", <<"extract", "resolve", primitive>>)
    ELSE Answer("done", <<"extract", "resolve", primitive>>)

\* mutant: the arguments are read before the active page is looked at
DescriptionToolArgsFirst(name, hasPage, i) ==
    IF ~i.args_ok THEN Fault(<<>>)
    ELSE IF ~hasPage THEN Answer(NoPageText, <<>>)
    ELSE LET r == ResolveThenAct(Primitive[name], i)
         IN IF name = "click_element" /\ r.text = "done"
            THEN Report("done", Append(r.steps, "wait_for_load_state"), i.reextract)
            ELSE r

\* _handle_click_element, _handle_type_text, _handle_select_option: the active
\* page is looked at first, then the arguments are indexed (a KeyError when a
\* key is missing); after a click the load state is awaited inside a
\* try / except: pass, and the page is reported
DescriptionTool(name, hasPage, i) ==
    IF ~hasPage THEN Answer(NoPageText, <<>>)
    ELSE IF ~i.args_ok THEN Fault(<<>>)
    ELSE LET r == ResolveThenAct(Primitive[name], i)
         IN IF name = "click_element" /\ r.text = "done"
            THEN Report("done", Append(r.steps, "wait_for_load_state"), i.reextract)
            ELSE r

\* _handle_scroll_page and _handle_go_back: the primitive, then the report
MoveTool(name, hasPage, i) ==
    IF ~hasPage THEN Answer(NoPageText, <<>>)
    ELSE IF Invoke(Primitive[name], i.page).raised
    THEN Fault(<<Primitive[name]>>)
    ELSE Report("done", <<Primitive[name]>>, i.extract)

\* the handler of a page tool
PageTool(name, hasPage, i) ==
    IF name = "read_page" THEN ReadPageTool(hasPage, i)
    ELSE IF name \in DescriptionTools THEN DescriptionTool(name, hasPage, i)
    ELSE MoveTool(name, hasPage, i)

\* the inputs each page tool is called with: missing arguments, a failing
\* inventory, each answer of the resolver, each behaviour of the page towards
\* the primitive and, after a click, of the load wait and the second inventory;
\* an input the tool does not read is left at its default
DescriptionToolInputs(name) ==
    {[NoInput EXCEPT !.args_ok = FALSE]}
       \cup {[NoInput EXCEPT !.extract = x] : x \in ExtractFaults}
       \cup {[NoInput EXCEPT !.selector = s] : s \in Selectors}
       \cup {[NoInput EXCEPT !.selector = "#buy", !.page = e, !.load_fault = l,
                             !.reextract = x] :
                e \in PageBehaviours[Primitive[name]],
                l \in IF name = "click_element" THEN BOOLEAN ELSE {FALSE},
                x \in IF name = "click_element" THEN ExtractFaults ELSE {NoFault}}
MoveToolInputs(name) ==
    {[NoInput EXCEPT !.page = e, !.extract = x] :
        e \in PageBehaviours[Primitive[name]], x \in ExtractFaults}
PageToolInputs ==
    [name \in PageTools |->
        IF name = "read_page"
        THEN {[NoInput EXCEPT !.extract = x] : x \in ExtractFaults}
        ELSE IF name \in DescriptionTools THEN DescriptionToolInputs(name)
        ELSE MoveToolInputs(name)]

\* the handlers of the page tools on the model's inputs, computed once
PageToolTable ==
    [name \in PageTools |->
        [hasPage \in BOOLEAN |->
            [i \in PageToolInputs[name] |-> PageTool(name, hasPage, i)]]]

\* one TextContent of a call_tool result
TextContent(text) == [type |-> "text", text |-> text]

\* mutant: call_tool without its except clause
CallToolNoExcept(name, h) ==
    IF name \notin ToolNames
    THEN [out |-> <<TextContent("Unknown tool")>>, raised |-> FALSE]
    ELSE IF h.raised
    THEN [out |-> <<>>, raised |-> TRUE]
    ELSE [out |-> <<TextContent(h.text)>>, raised |-> FALSE]

\* call_tool around the handler's outcome h: an unknown name is answered
\* without any handler, a handler's text is returned, and except Exception
\* turns a fault into an "Error: ..." text
CallTool(name, h) ==
    IF name \notin ToolNames
    THEN [out |-> <<TextContent("Unknown tool")>>, raised |-> FALSE]
    ELSE IF h.raised
    THEN [out |-> <<TextContent("Error")>>, raised |-> FALSE]
    ELSE [out |-> <<TextContent(h.text)>>, raised |-> FALSE]

\* the record of a call: handler_raised is whether a fault left the handler,
\* after_fault whether an earlier call of the session was answered with an
\* error or an unknown-tool text
Dispatched(name, i, h) ==
    LET c == CallTool(name, h)
    IN [name |-> name, input |-> i, steps |-> h.steps,
        handler_raised |-> (name \in ToolNames /\ h.raised),
        out |-> c.out, raised |-> c.raised,
        after_fault |-> /\ Len(tool.out) = 1
                        /\ \/ tool.out[1].text \in {"Error", "Unknown tool"}
                           \/ tool.after_fault]

ToolInit ==
    tool = [name |-> "(none)", input |-> NoInput, steps |-> <<>>,
            handler_raised |-> FALSE, out |-> <<>>, raised |-> FALSE,
            after_fault |-> FALSE]

\* a call of a name call_tool does not know
UnknownToolCall ==
    /\ \E name \in UnknownNames : tool' = Dispatched(name, NoInput, NoHandler)
    /\ UNCHANGED <<tabVars, nonToolVars>>

\* a call of a page tool
PageToolCall ==
    /\ \E name \in PageTools : \E i \in PageToolInputs[name] :
          tool' = Dispatched(name, i, PageToolTable[name][ActivePage # 0][i])
    /\ UNCHANGED <<tabVars, nonToolVars>>

\* the outcome of a tab tool's handler, from what it answered
TabToolOutcome(r) ==
    IF r.status = "raised" THEN Fault(<<>>) ELSE Answer(r.status, <<>>)

\* the url the dispatcher's calls open
DispatchUrls == {"https://amazon.com/dp/TEST"}

\* a call of open_link
OpenLinkCall ==
    /\ \E url \in DispatchUrls, outcome \in Outcomes : HandleOpenLink(url, outcome)
    /\ tool' = Dispatched("open_link", NoInput, TabToolOutcome(ret'))
    /\ UNCHANGED nonToolVars

\* a call of one of the other tools: its handler returns a text, returns a
\* value that json.dumps renders, or lets a fault out. What the handler does
\* to the gate and to the session is followed by its own action, not here.
OtherTools == ToolNames \ (PageTools \cup TabTools)
HandlerOutcomes == {Answer("text", <<>>), Answer("json", <<>>), Fault(<<>>)}
OtherToolCall ==
    /\ \E name \in OtherTools, h \in HandlerOutcomes :
          tool' = Dispatched(name, NoInput, h)
    /\ UNCHANGED <<tabVars, nonToolVars>>

-----------------------------------------------------------------------------
(* Calls in flight on the event loop: new_page and get_tab_list of          *)
(* shopping_tool/browser.py as coroutines. A step runs one coroutine from   *)
(* the await it is suspended on to its next await or its return; switch_tab *)
(* has no await and runs in one step.                                       *)

\* no call in flight
NoNewPage == [pc |-> "idle", url |-> "", page |-> 0]
NoGetTabList == [pc |-> "idle", i |-> 0, len0 |-> 0, out |-> <<>>]
NoClose == [pc |-> "idle", i |-> 0,
            had |-> [pages |-> 0, context |-> FALSE, browser |-> FALSE,
                     playwright |-> FALSE],
            log |-> <<>>]

LoopInit == co = [open |-> NoNewPage, list |-> NoGetTabList, close |-> NoClose]

\* new_page up to its first suspension: _ensure_context, then
\* context.new_page() is awaited
NewPageBegins(url) ==
    LET c == EnsureContext("ok")
    IN /\ co.open.pc = "idle"
       /\ Reachable("ok")
       /\ playwright' = c.playwright
       /\ browser' = c.browser
       /\ launches' = c.launches
       /\ context' = c.context
       /\ contexts_created' = c.contexts_created
       /\ co' = [co EXCEPT !.open = [pc |-> "new_page", url |-> url, page |-> 0]]
       /\ UNCHANGED <<tabs, active_tab_index, pages_created, ret>>

\* context.new_page() returns the page; page.goto is awaited
NewPagePageMade ==
    /\ co.open.pc = "new_page"
    /\ pages_created' = pages_created + 1
    /\ co' = [co EXCEPT !.open.pc = "goto", !.open.page = pages_created + 1]
    /\ UNCHANGED <<playwright, browser, context, tabs, active_tab_index,
                   launches, contexts_created, ret>>

\* page.goto returns, and the settle delay is awaited; or it raises, and the
\* call ends with nothing appended
NewPageGotoReturns(ok) ==
    /\ co.open.pc = "goto"
    /\ co' = IF ok THEN [co EXCEPT !.open.pc = "delay"]
             ELSE [co EXCEPT !.open = NoNewPage]
    /\ UNCHANGED tabVars

\* mutant: the page is appended before the delay, the index is set after it
NewPageAppendsThenWaits ==
    /\ co.open.pc = "delay"
    /\ IF \E k \in 1..Len(tabs) : tabs[k].id = co.open.page
       THEN /\ active_tab_index' = Len(tabs) - 1
            /\ co' = [co EXCEPT !.open = NoNewPage]
            /\ UNCHANGED tabs
       ELSE /\ tabs' = Append(tabs, [id |-> co.open.page, url |-> co.open.url,
                                     closed |-> FALSE])
            /\ UNCHANGED <<active_tab_index, co>>
    /\ UNCHANGED <<playwright, browser, context, launches, contexts_created,
                   pages_created, ret>>

\* the delay returns: the page is appended and made active, with no await
\* between the two, and new_page returns
NewPageRegisters ==
    /\ co.open.pc = "delay"
    /\ tabs' = Append(tabs, [id |-> co.open.page, url |-> co.open.url,
                             closed |-> FALSE])
    /\ active_tab_index' = Len(tabs') - 1
    /\ co' = [co EXCEPT !.open = NoNewPage]
    /\ UNCHANGED <<playwright, browser, context, launches, contexts_created,
                   pages_created, ret>>

\* get_tab_list up to its first suspension: the loop takes the first page and
\* awaits its title; with no page the empty list is returned at once
GetTabListBegins ==
    /\ co.list.pc \in {"idle", "done"}
    /\ co' = [co EXCEPT !.list =
                 [pc |-> IF Len(tabs) = 0 THEN "done" ELSE "title", i |-> 0,
                  len0 |-> Len(tabs), out |-> <<>>]]
    /\ UNCHANGED tabVars

\* page.title() returns for entry i (or raises, and the entry is "(closed)"):
\* the entry is appended with the active flag read now, and the loop goes on
\* to the next page of _tabs as it is now, or returns the list
GetTabListTitleReturns ==
    /\ co.list.pc = "title"
    /\ LET i == co.list.i
           entry == IF i < Len(tabs)
                    THEN GetTabList(tabs, active_tab_index)[i + 1]
                    ELSE [index |-> i, url |-> Closed, title |-> Closed,
                          active |-> (i = active_tab_index)]
       IN co' = [co EXCEPT !.list.out = Append(@, entry),
                           !.list.i = IF i + 1 < Len(tabs) THEN i + 1 ELSE @,
                           !.list.pc = IF i + 1 < Len(tabs) THEN "title" ELSE "done"]
    /\ UNCHANGED tabVars

\* switch_tab runs between two steps of the coroutines in flight
SwitchTabRuns(index) ==
    /\ SwitchTab(index)
    /\ UNCHANGED <<ret, co>>

LoopOpens ==
    /\ \E url \in Urls : NewPageBegins(url)
    /\ UNCHANGED nonLoopVars

LoopPageMade ==
    /\ NewPagePageMade
    /\ UNCHANGED nonLoopVars

LoopGotoReturns ==
    /\ \E ok \in BOOLEAN : NewPageGotoReturns(ok)
    /\ UNCHANGED nonLoopVars

LoopRegisters ==
    /\ NewPageRegisters
    /\ UNCHANGED nonLoopVars

LoopLists ==
    /\ GetTabListBegins
    /\ UNCHANGED nonLoopVars

LoopTitleReturns ==
    /\ GetTabListTitleReturns
    /\ UNCHANGED nonLoopVars

LoopSwitches ==
    /\ \E index \in TabIndexArgs : SwitchTabRuns(index)
    /\ UNCHANGED nonLoopVars

-----------------------------------------------------------------------------
(* BrowserManager.close as a coroutine: a step runs close from the await it *)
(* is suspended on (a page, the context, the browser or the driver being    *)
(* closed) to its next await or its return. main awaits close in its        *)
(* finally block, after the server has stopped, so no tool call runs while  *)
(* close is in flight.                                                      *)

\* an await of close that is being attempted, and whether it has raised
Attempt(step) == [step |-> step, failed |-> FALSE]

\* close from the if that guards step on: the first of context, browser and
\* driver that is set is awaited, with none left close returns
CloseGoesOn(from, c, b, p) ==
    IF from <= 2 /\ c.id # 0 THEN "context"
    ELSE IF from <= 3 /\ b.id # 0 THEN "browser"
    ELSE IF from <= 4 /\ p # "None" THEN "playwright"
    ELSE "done"

\* the log with the await close is suspended on next, if there is one
Attempted(log, pc) == IF pc = "done" THEN log ELSE Append(log, Attempt(pc))

\* the log once the await close was suspended on has returned or raised
Returned1(log, failed) == [log EXCEPT ![Len(log)].failed = failed]

\* close is called: the first page close is awaited; with no tab the loop is
\* skipped, the tab list cleared and the index reset
CloseBegins ==
    /\ co.close.pc \in {"idle", "done"}
    /\ co.open.pc = "idle"
    /\ IF Len(tabs) > 0
       THEN /\ co' = [co EXCEPT !.close =
                        [pc |-> "page", i |-> 1,
                         had |-> [pages |-> Len(tabs), context |-> context.id # 0,
                                  browser |-> browser.id # 0,
                                  playwright |-> playwright # "None"],
                         log |-> <<Attempt("page")>>]]
            /\ UNCHANGED <<tabs, active_tab_index>>
       ELSE LET pc == CloseGoesOn(2, context, browser, playwright)
            IN /\ co' = [co EXCEPT !.close =
                           [pc |-> pc, i |-> 0,
                            had |-> [pages |-> 0, context |-> context.id # 0,
                                     browser |-> browser.id # 0,
                                     playwright |-> playwright # "None"],
                            log |-> Attempted(<<>>, pc)]]
               /\ tabs' = <<>>
               /\ active_tab_index' = -1
    /\ UNCHANGED <<playwright, browser, context, launches, contexts_created,
                   pages_created, ret>>

\* mutant: the page closes are not wrapped, a fault in one ends close
ClosePageReturnsUncaught(failed) ==
    /\ co.close.pc = "page"
    /\ LET i == co.close.i
           log == Returned1(co.close.log, failed)
       IN IF failed
          THEN /\ co' = [co EXCEPT !.close.pc = "done", !.close.log = log]
               /\ UNCHANGED <<tabs, active_tab_index>>
          ELSE IF i < Len(tabs)
          THEN /\ co' = [co EXCEPT !.close.i = i + 1,
                                   !.close.log = Append(log, Attempt("page"))]
               /\ tabs' = [tabs EXCEPT ![i].closed = TRUE]
               /\ UNCHANGED active_tab_index
          ELSE LET pc == CloseGoesOn(2, context, browser, playwright)
               IN /\ co' = [co EXCEPT !.close.pc = pc,
                                      !.close.log = Attempted(log, pc)]
                  /\ tabs' = <<>>
                  /\ active_tab_index' = -1
    /\ UNCHANGED <<playwright, browser, context, launches, contexts_created,
                   pages_created, ret>>

\* page.close() returns or raises for the page the loop is at: the fault is
\* passed over, and the next page close is awaited; after the last page the
\* tab list is cleared, the index reset, and the context close awaited
ClosePageReturns(failed) ==
    /\ co.close.pc = "page"
    /\ LET i == co.close.i
           log == Returned1(co.close.log, failed)
       IN IF i < Len(tabs)
          THEN /\ co' = [co EXCEPT !.close.i = i + 1,
                                   !.close.log = Append(log, Attempt("page"))]
               /\ tabs' = IF failed THEN tabs ELSE [tabs EXCEPT ![i].closed = TRUE]
               /\ UNCHANGED active_tab_index
          ELSE LET pc == CloseGoesOn(2, context, browser, playwright)
               IN /\ co' = [co EXCEPT !.close.pc = pc,
                                      !.close.log = Attempted(log, pc)]
                  /\ tabs' = <<>>
                  /\ active_tab_index' = -1
    /\ UNCHANGED <<playwright, browser, context, launches, contexts_created,
                   pages_created, ret>>

\* _context.close() returns or raises: _context is set to None, and the
\* browser close is awaited
CloseContextReturns(failed) ==
    /\ co.close.pc = "context"
    /\ LET pc == CloseGoesOn(3, NoContext, browser, playwright)
       IN co' = [co EXCEPT !.close.pc = pc,
                           !.close.log = Attempted(Returned1(@, failed), pc)]
    /\ context' = NoContext
    /\ UNCHANGED <<playwright, browser, tabs, active_tab_index, launches,
                   contexts_created, pages_created, ret>>

\* _browser.close() returns or raises: _browser is set to None, and the stop
\* of the driver is awaited
CloseBrowserReturns(failed) ==
    /\ co.close.pc = "browser"
    /\ LET pc == CloseGoesOn(4, context, NoBrowser, playwright)
       IN co' = [co EXCEPT !.close.pc = pc,
                           !.close.log = Attempted(Returned1(@, failed), pc)]
    /\ browser' = NoBrowser
    /\ UNCHANGED <<playwright, context, tabs, active_tab_index, launches,
                   contexts_created, pages_created, ret>>

\* _playwright.stop() returns or raises: _playwright is set to None, and
\* close returns
ClosePlaywrightReturns(failed) ==
    /\ co.close.pc = "playwright"
    /\ co' = [co EXCEPT !.close.pc = "done",
                        !.close.log = Returned1(@, failed)]
    /\ playwright' = "None"
    /\ UNCHANGED <<browser, context, tabs, active_tab_index, launches,
                   contexts_created, pages_created, ret>>

\* a tool call that opens a page, made while close is not in flight
TeardownOpens ==
    /\ co.close.pc \in {"idle", "done"}
    /\ \E url \in Urls, outcome \in Outcomes : HandleOpenLink(url, outcome)
    /\ UNCHANGED nonTabVars

TeardownBegins ==
    /\ CloseBegins
    /\ UNCHANGED nonLoopVars

TeardownPageReturns ==
    /\ \E failed \in BOOLEAN : ClosePageReturns(failed)
    /\ UNCHANGED nonLoopVars

TeardownContextReturns ==
    /\ \E failed \in BOOLEAN : CloseContextReturns(failed)
    /\ UNCHANGED nonLoopVars

TeardownBrowserReturns ==
    /\ \E failed \in BOOLEAN : CloseBrowserReturns(failed)
    /\ UNCHANGED nonLoopVars

TeardownPlaywrightReturns ==
    /\ \E failed \in BOOLEAN : ClosePlaywrightReturns(failed)
    /\ UNCHANGED nonLoopVars

-----------------------------------------------------------------------------
(* Specifications *)

Init == GateInit /\ TabsInit /\ ActInit /\ ResolverInit /\ ToolInit /\ LoopInit

GateNext ==
    \/ SetupProfile
    \/ PreviewCheckout
    \/ ConfirmPurchase
    \/ Advance

SpecGate == Init /\ [][GateNext]_vars

\* the gate with a profile file that can be removed from outside
GateFileNext ==
    \/ SetupProfile
    \/ PreviewCheckout
    \/ ConfirmPurchase
    \/ Advance
    \/ ProfileRemoved

SpecGateFile == Init /\ [][GateFileNext]_vars

TabsNext ==
    \/ OpenProductPage
    \/ OpenLink
    \/ SwitchToTab
    \/ ReadPage
    \/ Shutdown
    \/ PageClosed
    \/ BrowserGone

SpecTabs == Init /\ [][TabsNext]_vars

ActionsNext ==
    \/ ClickCall
    \/ FillCall
    \/ SelectOptionCall
    \/ ScrollCall
    \/ GoBackCall
    \/ ExtractCall

SpecActions == Init /\ [][ActionsNext]_vars

ResolverNext ==
    \/ Resolve
    \/ TransportReplies

SpecResolver == Init /\ [][ResolverNext]_vars

\* every attempt ends: provider.run is awaited under a 60 s timeout
SpecResolverLive == SpecResolver /\ WF_vars(TransportReplies)

PromptNext ==
    \/ PromptBuilt

SpecPrompt == Init /\ [][PromptNext]_vars

DispatchNext ==
    \/ UnknownToolCall
    \/ PageToolCall
    \/ OpenLinkCall
    \/ OtherToolCall

SpecDispatch == Init /\ [][DispatchNext]_vars

LoopNext ==
    \/ LoopOpens
    \/ LoopPageMade
    \/ LoopGotoReturns
    \/ LoopRegisters
    \/ LoopLists
    \/ LoopTitleReturns
    \/ LoopSwitches

SpecLoop == Init /\ [][LoopNext]_vars

TeardownNext ==
    \/ TeardownOpens
    \/ PageClosed
    \/ BrowserGone
    \/ TeardownBegins
    \/ TeardownPageReturns
    \/ TeardownContextReturns
    \/ TeardownBrowserReturns
    \/ TeardownPlaywrightReturns

SpecTeardown == Init /\ [][TeardownNext]_vars

Next ==
    \/ GateNext \/ TabsNext \/ ActionsNext \/ ResolverNext \/ DispatchNext
    \/ LoopNext \/ TeardownNext \/ GateFileNext \/ PromptNext

Spec == Init /\ [][Next]_vars

-----------------------------------------------------------------------------
(* Properties of the confirmation gate, checked under SpecGate *)

\* the age of pending record k, and whether the sweep would keep it
Age(k) == now - pending[k].created_at
Unexpired(k) == k \in DOMAIN pending /\ Age(k) <= CONFIRMATION_TTL
Accepted(r) == r.op = "confirm_purchase" /\ r.status = "stub"
Rejected(r) == r.op = "confirm_purchase" /\ r.status = "rejected"
LowerLetters == {LowerAlpha[i] : i \in 1..26}

\* a step of confirm_purchase: the handler is run on the argument the answer
\* records (the handler stores its argument in resp)
ConfirmStep == resp'.op = "confirm_purchase" /\ HandleConfirmPurchase(resp'.arg)

\* the code a confirm step looks up, computed from the recorded argument
Supplied == Upper(Strip(resp'.arg))

\* C1: exactly-once consumption. A confirm that supplies a code preview stored
\* and whose record is unexpired is accepted and removes the record in the same
\* step; a confirm of a code already consumed, with no preview having stored it
\* again since, is rejected.
C1_ExactlyOnce ==
    [][ConfirmStep =>
          /\ (/\ Supplied \in DOMAIN issued
              /\ ~issued[Supplied].used
              /\ now - issued[Supplied].at <= CONFIRMATION_TTL)
                => (/\ Accepted(resp')
                    /\ resp'.code = Supplied
                    /\ Supplied \notin DOMAIN pending')
          /\ (Supplied \in DOMAIN issued /\ issued[Supplied].used) => Rejected(resp')]_vars

\* a code was accepted and, supplied again while its issue is still younger than
\* the TTL, was rejected
C1_Witness ==
    /\ Rejected(resp)
    /\ Upper(Strip(resp.arg)) \in DOMAIN issued
    /\ issued[Upper(Strip(resp.arg))].used
    /\ now - issued[Upper(Strip(resp.arg))].at <= CONFIRMATION_TTL

\* C2: gate precedence. Every accepted confirm is of a code that a preview
\* stored no more than the TTL earlier and that no confirm has consumed since;
\* a code no preview ever stored is never accepted.
C2_GatePrecedence ==
    [][(ConfirmStep /\ Accepted(resp')) =>
          /\ Supplied \in DOMAIN issued
          /\ ~issued[Supplied].used
          /\ now - issued[Supplied].at <= CONFIRMATION_TTL
          /\ now - issued[Supplied].at >= 0]_vars

\* a confirm was accepted exactly TTL seconds after the preview that issued its code
C2_Witness ==
    /\ Accepted(resp)
    /\ resp.code \in DOMAIN issued
    /\ now - issued[resp.code].at = CONFIRMATION_TTL

\* C3: expiry. A confirm that supplies a code whose pending record is older than
\* the TTL is rejected, although preview stored the code and nothing consumed it.
C3_Expiry ==
    [][(ConfirmStep /\ Supplied \in DOMAIN pending /\ Age(Supplied) > CONFIRMATION_TTL)
         => (Rejected(resp') /\ Supplied \notin DOMAIN pending')]_vars

\* a never-consumed code was rejected one second after its TTL ran out
C3_Witness ==
    /\ Rejected(resp)
    /\ Upper(Strip(resp.arg)) \in DOMAIN issued
    /\ ~issued[Upper(Strip(resp.arg))].used
    /\ now - issued[Upper(Strip(resp.arg))].at = CONFIRMATION_TTL + 1

\* C4 as stated: a rejected confirm leaves the pending store identical.
C4_RejectLeavesStoreIdentical ==
    [][(ConfirmStep /\ Rejected(resp')) => pending' = pending]_vars

\* C4 as amended: a rejected confirm creates no record and neither removes nor
\* changes any record that is not older than the TTL; the only records it
\* removes are those older than the TTL (the sweep that precedes the lookup).
C4_RejectOnlySweeps ==
    [][(ConfirmStep /\ Rejected(resp')) =>
          /\ DOMAIN pending' \subseteq DOMAIN pending
          /\ \A k \in DOMAIN pending' : pending'[k] = pending[k]
          /\ \A k \in DOMAIN pending :
                (k \in DOMAIN pending') <=> (Age(k) <= CONFIRMATION_TTL)
          /\ issued' = issued]_vars

\* a confirm was rejected while another code's unexpired record is in the store
C4_Witness ==
    /\ Rejected(resp)
    /\ \E k \in DOMAIN pending : Unexpired(k) /\ k # Upper(Strip(resp.arg))

\* C5 as stated: a record enters the store only through preview, and an
\* unexpired record is removed or replaced by nothing but an accepted confirm
\* of its code (in particular not by a later preview).
C5_Lifecycle ==
    [][/\ \A k \in DOMAIN pending' \ DOMAIN pending :
             resp'.op = "preview_checkout"
       /\ \A k \in DOMAIN pending :
             (Unexpired(k) /\ (k \notin DOMAIN pending' \/ pending'[k] # pending[k]))
                => (Accepted(resp') /\ resp'.code = k)]_vars

\* C6: confirm normalises its input. An argument that equals a pending unexpired
\* code c after trimming and upper-casing is accepted, and its result is the one
\* of supplying c itself: the answer names c and the url of c's record, and the
\* store loses c's record (and the expired ones) and nothing else.
C6_Normalises ==
    [][(ConfirmStep /\ Unexpired(Supplied)) =>
          /\ Accepted(resp')
          /\ resp'.code = Supplied
          /\ resp'.url = pending[Supplied].url
          /\ DOMAIN pending' =
                {k \in DOMAIN pending : Age(k) <= CONFIRMATION_TTL} \ {Supplied}
          /\ \A k \in DOMAIN pending' : pending'[k] = pending[k]]_vars

\* a confirm whose argument was not the code as issued (lower case, padded) was accepted
C6_Witness ==
    /\ Accepted(resp)
    /\ resp.arg # resp.code
    /\ \E i \in 1..Len(resp.arg) : resp.arg[i] \in Whitespace
    /\ \E i \in 1..Len(resp.arg) : resp.arg[i] \in LowerLetters

\* the bytes the code generator is checked on, beyond those drawn in the runs
ByteSamples == {0, 9, 10, 15, 16, 154, 161, 175, 250, 255}

\* every code generated from sample bytes is 6 upper-case characters and a
\* fixed point of trim + upper-case
CodeWellFormed(c) ==
    /\ Len(c) = 2 * TokenBytes
    /\ \A i \in 1..Len(c) : c[i] \notin LowerLetters
    /\ Upper(Strip(c)) = c

GeneratedCodesWellFormed ==
    \A b1 \in ByteSamples, b2 \in ByteSamples, b3 \in ByteSamples :
        CodeWellFormed(GenerateConfirmationCode(<<b1, b2, b3>>))

\* C7: every code preview returns is 6 characters long, has no lower-case
\* letter, is a fixed point of the normalisation confirm applies, and is the key
\* under which its record is stored.
C7_CodeShape ==
    /\ GeneratedCodesWellFormed
    /\ (resp.op = "preview_checkout" /\ resp.status = "preview") =>
          /\ CodeWellFormed(resp.code)
          /\ NormalizeCode(resp.code) = resp.code
          /\ resp.code \in DOMAIN pending
    /\ \A k \in DOMAIN pending : CodeWellFormed(k)

\* preview returned a code that contains a letter, which token_hex gave in lower case
C7_Witness ==
    /\ resp.op = "preview_checkout"
    /\ resp.status = "preview"
    /\ \E i \in 1..Len(resp.code) : resp.code[i] \in {"A", "B", "C", "D", "E", "F"}

-----------------------------------------------------------------------------
(* Properties of the tab collection, checked under SpecTabs *)

\* the listing get_tab_list returns in the current state
Listing == GetTabList(tabs, active_tab_index)

\* C8: active-index invariant. After any sequence of tab operations the active
\* index is a valid position (0 <= index < tab count) exactly when the tab
\* sequence is non-empty, and is the sentinel -1 when it is empty.
C8_ActiveIndex ==
    /\ (Len(tabs) # 0) <=> (0 <= active_tab_index /\ active_tab_index < Len(tabs))
    /\ (Len(tabs) = 0) => active_tab_index = -1
    /\ (ActivePage # 0) <=> (Len(tabs) # 0)

\* close() has emptied a session that had tabs, and the index is the sentinel
C8_Witness ==
    /\ ret.op = "close"
    /\ pages_created > 0
    /\ launches > 0
    /\ tabs = <<>>
    /\ active_tab_index = -1

\* C9: tab indexing and single active tab. A listing has one entry per tab,
\* with indices 0..n-1 in creation order; in a non-empty session exactly one
\* entry is marked active, the one at the active index; a valid switch_tab(i)
\* makes that entry the one at index i.
C9_Listing ==
    /\ [](/\ Len(Listing) = Len(tabs)
          /\ \A k \in 1..Len(Listing) :
                /\ Listing[k].index = k - 1
                /\ Listing[k].url \in {tabs[k].url, Closed}
                /\ Listing[k].active <=> (k - 1 = active_tab_index)
          /\ \A j, k \in 1..Len(tabs) : j < k => tabs[j].id < tabs[k].id
          /\ Len(tabs) > 0 => Cardinality({k \in 1..Len(Listing) : Listing[k].active}) = 1
          /\ ret.marks # <<>> =>
                /\ ret.marks = Marks(Listing)
                /\ Cardinality({k \in 1..Len(ret.marks) : ret.marks[k].active}) = 1
          /\ (ret.op = "switch_tab" /\ ret.status = "ok") =>
                {k \in 1..Len(ret.marks) : ret.marks[k].active} = {ret.tab + 1})
    /\ [][(/\ ret'.op = "switch_tab"
           /\ 0 <= ret'.tab /\ ret'.tab < Len(tabs)
           /\ HandleSwitchTab(ret'.tab)) =>
              /\ active_tab_index' = ret'.tab
              /\ \A k \in 1..Len(tabs) :
                    GetTabList(tabs', active_tab_index')[k].active <=> (k - 1 = ret'.tab)]_vars

\* three tabs were opened, the caller switched to index 1, and a listing taken
\* afterwards marks index 1 and nothing else
C9_Witness ==
    /\ ret.op = "read_page"
    /\ ret.status = "ok"
    /\ Len(tabs) = 3
    /\ Len(ret.marks) = 3
    /\ ret.marks[2].active
    /\ ~ret.marks[1].active /\ ~ret.marks[3].active

\* C10: every successful open_product_page and every successful open_link
\* appends exactly one tab, for the url asked for, at the end of the sequence,
\* makes it the active tab and leaves the earlier tabs where they were; an
\* open_link call changes the session exactly as new_page does.
C10_OpenAppends ==
    [][/\ (ret'.status = "ok" /\ ret'.op \in {"open_product_page", "open_link"}) =>
            \A url \in Urls, outcome \in Outcomes :
               (HandleOpenProductPage(url, outcome) \/ HandleOpenLink(url, outcome)) =>
                  /\ Len(tabs') = Len(tabs) + 1
                  /\ SubSeq(tabs', 1, Len(tabs)) = tabs
                  /\ tabs'[Len(tabs')].url = url
                  /\ ~tabs'[Len(tabs')].closed
                  /\ \A k \in 1..Len(tabs) : tabs[k].id # tabs'[Len(tabs')].id
                  /\ active_tab_index' = Len(tabs)
       /\ (ret'.op = "open_link") =>
            \A url \in Urls, outcome \in Outcomes :
               HandleOpenLink(url, outcome) => NewPage(url, outcome)]_vars

\* open_link has opened a second tab behind a first one and reports it as active
C10_Witness ==
    /\ ret.op = "open_link"
    /\ ret.status = "ok"
    /\ Len(tabs) >= 2
    /\ ret.tab = Len(tabs) - 1
    /\ active_tab_index = Len(tabs) - 1

\* C11: switch_tab is bounds-checked. For an index outside 0..count-1 it returns
\* no page, the call is answered as an invalid index and not with a fault, and
\* the active index and the tab sequence stay as they were; for an index inside
\* the range it returns the page at that index, the active index becomes the
\* index and the tab sequence stays as it was.
C11_SwitchBoundsChecked ==
    [][(ret'.op = "switch_tab" /\ HandleSwitchTab(ret'.tab)) =>
          /\ tabs' = tabs
          /\ (ret'.tab < 0 \/ ret'.tab >= Len(tabs)) =>
                /\ SwitchTabResult(ret'.tab) = 0
                /\ ret'.status = "invalid"
                /\ active_tab_index' = active_tab_index
          /\ (0 <= ret'.tab /\ ret'.tab < Len(tabs)) =>
                /\ SwitchTabResult(ret'.tab) = ret'.tab + 1
                /\ ret'.status # "invalid"
                /\ active_tab_index' = ret'.tab]_vars

\* switch_tab was called with the index equal to the tab count while another
\* tab was active, and was answered as invalid
C11_Witness ==
    /\ ret.op = "switch_tab"
    /\ ret.status = "invalid"
    /\ Len(tabs) >= 2
    /\ ret.tab = Len(tabs)
    /\ active_tab_index = 0

\* a step of close(): the shutdown handler run with the faults the answer records
CloseStep == ret'.op = "close" /\ HandleClose(ret'.faults)

\* C12: index stability. A step that is not a close() neither shrinks nor
\* reorders the tab sequence: every tab stays at its position, with its identity
\* and url, also when its page has crashed or was closed from outside.
C12_IndexStability ==
    [][~CloseStep =>
          /\ Len(tabs') >= Len(tabs)
          /\ \A k \in 1..Len(tabs) :
                /\ tabs'[k].id = tabs[k].id
                /\ tabs'[k].url = tabs[k].url]_vars

\* the page of the first of three tabs has been closed from outside, and a
\* switch to index 0 still found that tab there (its inventory could not be read)
C12_Witness ==
    /\ Len(tabs) = 3
    /\ tabs[1].closed
    /\ ~tabs[2].closed
    /\ tabs[1].id < tabs[2].id /\ tabs[2].id < tabs[3].id
    /\ ret.op = "switch_tab"
    /\ ret.tab = 0
    /\ ret.status = "raised"
    /\ active_tab_index = 0

\* C13: close() returns without raising whichever of its steps fail (page
\* closes, context close, browser close, driver stop), and leaves the tab list
\* empty, the active index -1 and context, browser and driver unset.
C13_CloseNeverRaises ==
    [][(/\ ret'.op = "close"
        /\ ret'.faults \subseteq CloseAttempts
        /\ HandleClose(ret'.faults)) =>
          /\ ret'.status = "ok"
          /\ tabs' = <<>>
          /\ active_tab_index' = -1
          /\ context' = NoContext
          /\ browser' = NoBrowser
          /\ playwright' = "None"]_vars

\* close() has returned after every one of its four kinds of step failed
C13_Witness ==
    /\ ret.op = "close"
    /\ ret.status = "ok"
    /\ ret.faults = {"page", "context", "browser", "playwright"}
    /\ tabs = <<>>
    /\ active_tab_index = -1
    /\ browser = NoBrowser

\* C16: lazy, idempotent acquisition. A successful open call made when neither
\* browser nor context exists (after construction or close) launches the browser
\* once and creates the context once; every open call made while the browser is
\* connected launches nothing, every open call made while a context exists
\* creates none, and both are kept as they are; after a successful open call
\* the browser is connected and the context is in it.
C16_LazyAcquisition ==
    [][(ret'.op \in {"open_product_page", "open_link"}) =>
         \A url \in Urls, outcome \in Outcomes :
            (/\ (outcome = "ok") = (ret'.status = "ok")
             /\ IF ret'.op = "open_link"
                THEN HandleOpenLink(url, outcome)
                ELSE HandleOpenProductPage(url, outcome)) =>
               /\ (browser.id = 0 /\ context.id = 0 /\ outcome = "ok") =>
                     /\ launches' = launches + 1
                     /\ contexts_created' = contexts_created + 1
               /\ BrowserRunning => (launches' = launches /\ browser' = browser)
               /\ context.id # 0 =>
                     /\ contexts_created' = contexts_created
                     /\ launches' = launches
                     /\ context' = context
               /\ outcome = "ok" =>
                     /\ browser'.id # 0 /\ browser'.connected
                     /\ context'.id # 0 /\ context'.browser = browser'.id]_vars

\* three tabs were opened one after the other on one launch and one context
C16_Witness ==
    /\ ret.op \in {"open_product_page", "open_link"}
    /\ ret.status = "ok"
    /\ Len(tabs) = 3
    /\ pages_created = 3
    /\ launches = 1
    /\ contexts_created = 1
    /\ browser.connected

\* the operations the claim lists as turning every fault into a value
ValueOps == {"click", "fill", "select_option", "scroll", "go_back",
             "extract_page_elements"}

\* C14 as stated: click, fill, select_option, scroll, go_back and
\* extract_page_elements never let a fault reach the caller; every call of them
\* ends with a value.
C14_FaultsBecomeValues == act.op \in ValueOps => ~act.raised

\* the page behaviour of a click call, read from the record of the call
ClickResolved ==
    /\ act.env.found
    /\ IF act.env.dialect = "has-text"
       THEN act.env.fault \notin {"count", "element_handle"}
       ELSE act.env.fault # "query_selector"
ClickVisible == act.env.visible /\ act.env.fault # "is_visible"
NativeSucceeded == "native" \in Range(act.clicks) /\ act.env.fault # "click"
ForcedSucceeded == "forced" \in Range(act.clicks) /\ ~act.env.fallback_fails

\* C15: click never raises; it returns True exactly when the selector resolved
\* to an element, the element was visible and the native click or the forced
\* script-level click succeeded; when the element is absent or not visible it
\* returns False and no click was attempted; the forced click is attempted only
\* after the native click, and only when that one failed.
C15_Click ==
    act.op = "click" =>
       /\ ~act.raised
       /\ act.returned \in {"True", "False"}
       /\ act.returned = "True" <=>
             (ClickResolved /\ ClickVisible /\ (NativeSucceeded \/ ForcedSucceeded))
       /\ (~act.env.found \/ ~act.env.visible) =>
             (act.returned = "False" /\ act.clicks = <<>>)
       /\ "forced" \in Range(act.clicks) =>
             (act.clicks = <<"native", "forced">> /\ act.env.fault = "click")

\* a click on a visible element returned True after the native click failed
\* and the forced click was made
C15_Witness ==
    /\ act.op = "click"
    /\ act.env.found /\ act.env.visible
    /\ act.env.fault = "click"
    /\ act.clicks = <<"native", "forced">>
    /\ act.returned = "True"

\* the description, lower-cased and trimmed, is a key of the table of the
\* retailer detected from the url
Present(description, url) ==
    /\ DetectRetailer(url) \in DOMAIN KNOWN_SELECTORS
    /\ Lower(Strip(description)) \in DOMAIN KNOWN_SELECTORS[DetectRetailer(url)]

\* the selector the table has for it
TableSelector(description, url) ==
    KNOWN_SELECTORS[DetectRetailer(url)][Lower(Strip(description))]

\* C17: tier 1 is deterministic. A call whose description is in the table of
\* the retailer detected from the page url returns the table's selector without
\* entering the retry loop, with no transport call and no transport constructed,
\* and a later call with the same description and url returns the same selector.
C17_Tier1Deterministic ==
    /\ [](Present(rs.description, rs.url) =>
             /\ rs.pc = "done"
             /\ rs.result = TableSelector(rs.description, rs.url)
             /\ rs.calls = 0
             /\ ~rs.constructed)
    /\ [][(/\ Present(rs'.description, rs'.url)
           /\ rs'.description = rs.description
           /\ rs'.url = rs.url) => rs'.result = rs.result]_vars

\* "Add to Cart" on an upper-case amazon.co.uk url was resolved from the table,
\* with no API key set and no transport call
C17_Witness ==
    /\ rs.pc = "done"
    /\ rs.description = <<"A", "d", "d", " ", "t", "o", " ", "C", "a", "r", "t">>
    /\ rs.url = <<"h", "t", "t", "p", "s", ":", "/", "/", "W", "W", "W", ".", "A", "M", "A", "Z", "O", "N", ".", "C", "O", ".", "U", "K", "/", "x">>
    /\ rs.result = "#add-to-cart-button"
    /\ rs.calls = 0
    /\ ~rs.key

\* C18 as stated: a description hits the table exactly when its lower-cased,
\* trimmed form is a key of the detected retailer's table; every other call is
\* a miss that goes on to tier 2 and invokes the transport.
C18_ExactMatchOrTransport ==
    rs.pc # "idle" =>
       IF Present(rs.description, rs.url)
       THEN /\ rs.pc = "done"
            /\ rs.calls = 0
            /\ rs.result = TableSelector(rs.description, rs.url)
       ELSE /\ rs.constructed
            /\ rs.pc = "done" => rs.calls >= 1

\* C18 as amended: a description hits the table exactly when its lower-cased,
\* trimmed form is a key of the detected retailer's table; every other call is
\* a miss that goes on to tier 2, which invokes the transport when one can be
\* constructed (the API key is set) and otherwise returns not-found with no
\* transport call.
C18_ExactMatchOrTier2 ==
    rs.pc # "idle" =>
       IF Present(rs.description, rs.url)
       THEN /\ rs.pc = "done"
            /\ rs.calls = 0
            /\ rs.result = TableSelector(rs.description, rs.url)
       ELSE IF rs.key
       THEN /\ rs.constructed
            /\ rs.pc = "done" => rs.calls >= 1
       ELSE /\ rs.pc = "done"
            /\ ~rs.constructed
            /\ rs.calls = 0
            /\ rs.result = "None"

\* "add to cart now" on an amazon url, which begins with a key but is none,
\* went to the transport
C18_Witness ==
    /\ rs.pc = "done"
    /\ rs.description = <<"a", "d", "d", " ", "t", "o", " ", "c", "a", "r", "t", " ", "n", "o", "w">>
    /\ DetectRetailer(rs.url) = "amazon"
    /\ rs.constructed
    /\ rs.calls >= 1

\* the documents with found = true and a selector, and those with found = false
FoundDocs ==
    {doc \in DOMAIN JsonDocs : /\ JsonDocs[doc].kind = "object"
                               /\ JsonDocs[doc].found = "true"
                               /\ JsonDocs[doc].selector # "(absent)"}
AbsentDocs ==
    {doc \in DOMAIN JsonDocs : /\ JsonDocs[doc].kind = "object"
                               /\ JsonDocs[doc].found = "false"}

\* C19: tier 2 success. On a table miss the transport is called exactly once
\* per attempt, and a reply that is a JSON object with found = true and selector
\* s makes the call return s, whether the reply is the bare JSON, fenced, or
\* fenced with the json tag.
C19_Tier2Success ==
    /\ []((rs.pc = "loop" => rs.calls = rs.attempt)
          /\ ((rs.pc = "done" /\ rs.constructed) => rs.calls = rs.attempt + 1))
    /\ [][(rs.pc = "loop" /\ rs' # rs) =>
             /\ rs'.calls = rs.calls + 1
             /\ \A doc \in FoundDocs :
                   (/\ rs'.reply.kind = "content"
                    /\ rs'.reply.content \in {Bare(doc), Fenced(doc), FencedJson(doc)}) =>
                      /\ rs'.pc = "done"
                      /\ rs'.result = JsonDocs[doc].selector]_vars

\* C20: explicit absence short-circuits. A well-formed reply with found = false
\* on attempt k ends the call with not-found after exactly k transport calls;
\* no further attempt follows (the next transport call belongs to a new call).
C20_AbsenceShortCircuits ==
    /\ [][(/\ rs.pc = "loop"
           /\ rs'.reply.kind = "content"
           /\ \E doc \in AbsentDocs :
                 rs'.reply.content \in {Bare(doc), Fenced(doc), FencedJson(doc)}) =>
             /\ rs'.pc = "done"
             /\ rs'.result = "None"
             /\ rs'.calls = rs.attempt + 1]_vars
    /\ [][rs.pc = "done" => (rs'.calls = 0 /\ rs'.attempt = 0)]_vars

-----------------------------------------------------------------------------
(* Properties of the retry loop, checked under SpecResolver *)

\* the text of a reply that is no JSON at all
NoJson == <<"n", "o", " ", "j", "s", "o", "n">>

\* how an attempt fails: the transport times out, the transport raises, the
\* reply is empty, or what json.loads is handed does not parse
TimedOut(reply) == reply.kind = "timeout"
TransportError(reply) == reply.kind = "error"
EmptyReply(reply) == reply.kind = "content" /\ reply.content = <<>>
ParseFailure(reply) ==
    /\ reply.kind = "content"
    /\ reply.content # <<>>
    /\ JsonLoads(ExtractJson(reply.content)).kind = "JSONDecodeError"
Failing(reply) ==
    TimedOut(reply) \/ TransportError(reply) \/ EmptyReply(reply) \/ ParseFailure(reply)

\* an attempt: a step of the retry loop
AttemptStep == rs.pc = "loop" /\ rs' # rs

\* C21: retry exhaustion. Attempts are numbered by the transport calls made so
\* far; an attempt that ends in a transport error, a timeout, an empty reply or
\* an unparseable reply goes on to the next attempt while it is not the third,
\* and the third such failure ends the call with not-found after exactly 3
\* transport calls. Nothing is raised: every attempt ends in a retry or a value.
C21_RetryExhaustion ==
    /\ [](rs.pc = "loop" => (rs.calls = rs.attempt /\ rs.attempt < MaxAttempts))
    /\ [][(AttemptStep /\ Failing(rs'.reply)) =>
             IF rs.attempt < 2
             THEN /\ rs'.pc = "loop"
                  /\ rs'.attempt = rs.attempt + 1
                  /\ rs'.calls = rs.calls + 1
             ELSE /\ rs'.pc = "done"
                  /\ rs'.result = "None"
                  /\ rs'.calls = 3]_vars

\* a call ended with not-found after 3 transport calls of mixed failures: a
\* timeout first (no sleep), then a failure of another kind (4 s of sleep), and
\* a reply that is no JSON last
C21_Witness ==
    /\ rs.pc = "done"
    /\ rs.result = "None"
    /\ rs.calls = 3
    /\ rs.slept = 4
    /\ rs.reply.kind = "content"
    /\ rs.reply.content = NoJson

\* the sleep of an attempt
SleptInStep == rs'.slept - rs.slept

\* C22 as stated: an attempt k = 0 or 1 that fails with an empty reply, a JSON
\* parse failure, a timeout or any other transport error is followed by a wait
\* of (k+1)*2 seconds before attempt k+1, the same for all four kinds, and no
\* wait follows the last attempt.
C22_BackoffAllKinds ==
    [][(AttemptStep /\ Failing(rs'.reply)) =>
          SleptInStep = IF rs.attempt < 2 THEN (rs.attempt + 1) * 2 ELSE 0]_vars

\* C22 as amended: an attempt k = 0 or 1 that fails with an empty reply, a JSON
\* parse failure or a transport error other than a timeout is followed by a wait
\* of (k+1)*2 seconds before attempt k+1; after a timeout attempt k+1 starts with
\* no wait; no wait follows the last attempt.
C22_BackoffExceptTimeout ==
    [][(AttemptStep /\ Failing(rs'.reply)) =>
          SleptInStep = IF rs.attempt < 2 /\ ~TimedOut(rs'.reply)
                        THEN (rs.attempt + 1) * 2
                        ELSE 0]_vars

\* the third attempt is about to start after the waits of 2 s and 4 s
C22_Witness ==
    /\ rs.pc = "loop"
    /\ rs.attempt = 2
    /\ rs.slept = 6
    /\ EmptyReply(rs.reply)

\* a reply that gives a document in one of the forms the resolver accepts
FormsOf(doc) == {Bare(doc), Padded(doc), Fenced(doc), FencedJson(doc)}
WellFormed(reply, doc) ==
    /\ reply.kind = "content"
    /\ reply.content \in FormsOf(doc)

\* C23 as stated: bounded resolution. A call makes at most 3 transport calls,
\* terminates, and ends with a selector or not-found; the first well-formed reply
\* among its attempts decides the result (whatever failed before it): the
\* selector of a found = true object, not-found for a found = false object.
C23_BoundedResolution ==
    /\ [](rs.calls <= 3)
    /\ [](rs.pc = "done" => rs.result # "(pending)")
    /\ (rs.pc = "loop" ~> rs.pc = "done")
    /\ [][AttemptStep =>
             /\ \A doc \in FoundDocs :
                   WellFormed(rs'.reply, doc) =>
                      (rs'.pc = "done" /\ rs'.result = JsonDocs[doc].selector)
             /\ \A doc \in AbsentDocs :
                   WellFormed(rs'.reply, doc) =>
                      (rs'.pc = "done" /\ rs'.result = "None")]_vars

\* what json.loads is handed parses, and the value is no object
NonObject(reply) ==
    /\ reply.kind = "content"
    /\ reply.content # <<>>
    /\ JsonLoads(ExtractJson(reply.content)).kind = "array"

\* the documents that are objects without the found key
FoundlessDocs ==
    {doc \in DOMAIN JsonDocs : /\ JsonDocs[doc].kind = "object"
                               /\ JsonDocs[doc].found = "(absent)"}

\* the attempt is retried while attempts remain
Retried ==
    IF rs.attempt < 2
    THEN rs'.pc = "loop" /\ rs'.attempt = rs.attempt + 1
    ELSE rs'.pc = "done" /\ rs'.result = "None"

C25_NoCollaborator ==
    (rs.pc # "idle" /\ ~rs.key) =>
       /\ rs.pc = "done"
       /\ rs.calls = 0
       /\ ~rs.constructed
       /\ rs.result = IF Present(rs.description, rs.url)
                      THEN TableSelector(rs.description, rs.url)
                      ELSE "None"

\* "add to basket" on a bestbuy url, which the table does not have, came back
\* not-found with no key set
C25_Witness ==
    /\ rs.pc = "done"
    /\ ~rs.key
    /\ rs.description = <<"a", "d", "d", " ", "t", "o", " ", "b", "a", "s", "k", "e", "t">>
    /\ DetectRetailer(rs.url) = "bestbuy"
    /\ rs.result = "None"
    /\ rs.calls = 0

-----------------------------------------------------------------------------
(* Properties of the dispatcher, checked under SpecDispatch *)

\* the text call_tool returned
ToolText == tool.out[1].text

\* C26: the dispatcher always answers with an observation. Every call_tool call,
\* whatever the name and the arguments, returns exactly one text result and
\* raises nothing: an unknown name gets the "Unknown tool" text, a fault that
\* leaves a handler (a navigation failure of open_link among them) gets the
\* "Error: ..." text, and after any answer every kind of call is still served.
C26_AlwaysAnObservation ==
    /\ [](tool.name # "(none)" =>
             /\ Len(tool.out) = 1
             /\ tool.out[1].type = "text"
             /\ ~tool.raised
             /\ tool.name \notin ToolNames => ToolText = "Unknown tool"
             /\ tool.handler_raised => ToolText = "Error"
             /\ (tool.name \in ToolNames /\ ~tool.handler_raised) =>
                   ToolText \notin {"Error", "Unknown tool"})
    /\ [](/\ ENABLED UnknownToolCall
          /\ ENABLED PageToolCall
          /\ ENABLED OtherToolCall)

\* open_link was answered with an error text for a navigation that failed, after
\* an earlier call had already been answered with an error or unknown-tool text
C26_Witness ==
    /\ tool.name = "open_link"
    /\ ret.status = "raised"
    /\ tool.handler_raised
    /\ ToolText = "Error"
    /\ tool.after_fault

\* C27: no active tab is a normal negative result. With no active tab each of
\* read_page, click_element, type_text, select_option, scroll_page and go_back
\* answers "No browser page is open" and makes no extraction, no resolver call
\* and no page action; the session is left as it was.
C27_NoActiveTab ==
    [][(/\ tool' # tool
        /\ tool'.name \in PageTools
        /\ ActivePage = 0) =>
          /\ tool'.out = <<TextContent(NoPageText)>>
          /\ tool'.steps = <<>>
          /\ ~tool'.handler_raised
          /\ UNCHANGED sessionVars]_vars

\* type_text, called without its arguments while a browser was running but no
\* tab was open, answered that no page is open
C27_Witness ==
    /\ tool.name = "type_text"
    /\ ~tool.input.args_ok
    /\ ActivePage = 0
    /\ browser.id # 0
    /\ ToolText = NoPageText

\* C28: ordering of a description-driven action. In click_element, type_text
\* and select_option the inventory is extracted first, then the resolver is
\* called, and the primitive is invoked only after the resolver has handed back
\* a selector; when the resolver hands back not-found the primitive is not
\* invoked and the answer reports the page's element counts.
C28_ExtractResolveAct ==
    tool.name \in DescriptionTools =>
       LET primitive == Primitive[tool.name]
           called == Range(tool.steps)
       IN /\ "resolve" \in called =>
                (Len(tool.steps) >= 2 /\ SubSeq(tool.steps, 1, 2) = <<"extract", "resolve">>)
          /\ primitive \in called =>
                /\ Len(tool.steps) >= 3
                /\ SubSeq(tool.steps, 1, 3) = <<"extract", "resolve", primitive>>
                /\ tool.input.selector \notin {"None", ""}
          /\ ("resolve" \in called /\ tool.input.selector = "None") =>
                /\ called \cap Primitives = {}
                /\ ToolText = CouldNotFindText

\* select_option extracted the inventory, had a selector resolved and then
\* invoked the primitive
C28_Witness ==
    /\ tool.name = "select_option"
    /\ tool.input.selector = "#buy"
    /\ tool.steps = <<"extract", "resolve", "select_option">>
    /\ ToolText = "done"

-----------------------------------------------------------------------------
(* Properties of calls in flight, checked under SpecLoop *)

\* the page new_page is opening is in the tab list
OpeningPageListed == \E k \in 1..Len(tabs) : tabs[k].id = co.open.page

\* C29: atomic tab registration. Whatever get_tab_list and switch_tab calls run
\* at the suspension points of a new_page call in flight, the page being opened
\* is not in the tab list while the call is suspended, and the step that
\* appends it is the step that makes it active: no state has the new tab in the
\* list with the active index still on the old tab.
C29_AtomicRegistration ==
    /\ [](co.open.pc # "idle" => ~OpeningPageListed)
    /\ [][Len(tabs') > Len(tabs) =>
             /\ Len(tabs') = Len(tabs) + 1
             /\ active_tab_index' = Len(tabs') - 1
             /\ co.open.pc = "delay"
             /\ co'.open.pc = "idle"
             /\ tabs'[Len(tabs')].id = co.open.page]_vars

\* a get_tab_list call that began with one tab is suspended on a title while a
\* new_page call that began after it has registered a second tab and made it
\* active
C29_Witness ==
    /\ co.list.pc = "title"
    /\ co.list.len0 = 1
    /\ Len(tabs) = 2
    /\ active_tab_index = 1
    /\ co.open.pc = "idle"

\* the entries of a listing that are marked active
ActiveEntries(list) == {k \in 1..Len(list) : list[k].active}

\* C30 as stated: every list get_tab_list returns on a session with tabs marks
\* exactly one entry active, also when a new_page or switch_tab call completes
\* while get_tab_list is suspended on a tab's title.
C30_OneActiveEntry ==
    (co.list.pc = "done" /\ co.list.len0 > 0) =>
       Cardinality(ActiveEntries(co.list.out)) = 1

-----------------------------------------------------------------------------
(* Teardown *)

\* the place of a step in the order close takes its steps in
CloseRank(step) == CHOOSE k \in 1..4 : CloseSteps[k] = step

\* the positions of the log at which step was attempted
AttemptsOf(log, step) == {k \in DOMAIN log : log[k].step = step}

\* C31: close attempts the close of every tab first, then of the context, then
\* of the browser, then the stop of the driver, each at most once and in that
\* order; whatever failed before, a close that has returned has attempted one
\* close per tab and each of context, browser and driver that was set; and
\* while the context close is awaited, and from then on until close returns,
\* the tab list is already empty and the active index already -1.
C31_TeardownOrder ==
    LET c == co.close
    IN /\ \A j, k \in DOMAIN c.log :
             j < k => /\ CloseRank(c.log[j].step) <= CloseRank(c.log[k].step)
                      /\ c.log[k].step # "page" =>
                            CloseRank(c.log[j].step) < CloseRank(c.log[k].step)
       /\ c.pc = "done" =>
             /\ Cardinality(AttemptsOf(c.log, "page")) = c.had.pages
             /\ (AttemptsOf(c.log, "context") # {}) = c.had.context
             /\ (AttemptsOf(c.log, "browser") # {}) = c.had.browser
             /\ (AttemptsOf(c.log, "playwright") # {}) = c.had.playwright
       /\ c.pc = "context" => context.id # 0
       /\ c.pc \in {"context", "browser", "playwright"} =>
             (tabs = <<>> /\ active_tab_index = -1)

\* close has returned after the first of two page closes and the context close
\* had failed: both pages, the context, the browser and the driver were tried
C31_Witness ==
    /\ co.close.pc = "done"
    /\ Len(co.close.log) = 5
    /\ co.close.log[1] = [step |-> "page", failed |-> TRUE]
    /\ co.close.log[2].step = "page"
    /\ co.close.log[3] = [step |-> "context", failed |-> TRUE]
    /\ co.close.log[4].step = "browser"
    /\ co.close.log[5].step = "playwright"
    /\ tabs = <<>>
    /\ active_tab_index = -1

\* C32: an open call whose navigation fails (page.goto raises or times out)
\* hands the fault to its caller and leaves the tab list and the active index
\* exactly as they were: no tab is appended for the page that did not load.
C32_FailedOpenAppendsNothing ==
    [][(/\ ret'.op \in {"open_product_page", "open_link"}
        /\ ret'.status \in {"error", "raised"}) =>
          \A url \in Urls :
             (IF ret'.op = "open_link"
              THEN HandleOpenLink(url, "goto_fails")
              ELSE HandleOpenProductPage(url, "goto_fails")) =>
                /\ tabs' = tabs
                /\ active_tab_index' = active_tab_index
                /\ ret'.marks = <<>>]_vars

\* with one tab open and active, the navigation of a second page has failed:
\* the page was made, and the session still has the one tab
C32_Witness ==
    /\ ret.op = "open_link"
    /\ ret.status = "raised"
    /\ Len(tabs) = 1
    /\ active_tab_index = 0
    /\ pages_created = 2
    /\ ~tabs[1].closed

\* C33: the tab listing degrades per tab. A call that lists the tabs while its
\* own page is readable does not raise, whatever the other tabs are; the
\* listing has one entry per tab, in order, each with its index and its active
\* flag; a tab that cannot be read has "(closed)" for both url and title; a tab
\* that can be read has its own url and title.
C33_ListingDegradesPerTab ==
    [][(/\ ret'.op = "read_page"
        /\ HandleReadPage
        /\ ActivePage # 0
        /\ ~tabs[ActivePage].closed) =>
          LET list == GetTabList(tabs, active_tab_index)
          IN /\ ret'.status = "ok"
             /\ ret'.marks = Marks(list)
             /\ Len(list) = Len(tabs)
             /\ \A k \in 1..Len(tabs) :
                   /\ list[k].index = k - 1
                   /\ list[k].active = (k - 1 = active_tab_index)
                   /\ tabs[k].closed =>
                         (list[k].url = Closed /\ list[k].title = Closed)
                   /\ ~tabs[k].closed =>
                         /\ list[k].url = tabs[k].url
                         /\ list[k].title = PageTitle(tabs[k].url)]_vars

\* the tabs were listed with the first of two tabs closed and the second,
\* readable one active
C33_Witness ==
    /\ ret.op = "read_page"
    /\ ret.status = "ok"
    /\ Len(tabs) = 2
    /\ tabs[1].closed
    /\ ~tabs[2].closed
    /\ active_tab_index = 1
    /\ ret.marks = <<[index |-> 0, active |-> FALSE], [index |-> 1, active |-> TRUE]>>
    /\ GetTabList(tabs, active_tab_index)[1].title = Closed
    /\ GetTabList(tabs, active_tab_index)[2].title # Closed

\* the browser went away under a context that is still held
StaleContext == context.id # 0 /\ browser.id = context.browser /\ ~browser.connected

\* C34: re-acquisition after a disconnect. An open call made while the context
\* held belongs to a browser that has disconnected launches a new browser and
\* makes a new context in it before it navigates, instead of using the stale
\* context.
C34_ReacquiresAfterDisconnect ==
    [][(/\ ret'.op \in {"open_product_page", "open_link"}
        /\ StaleContext) =>
          \A url \in Urls, outcome \in Outcomes :
             (/\ (outcome = "ok") = (ret'.status = "ok")
              /\ IF ret'.op = "open_link"
                 THEN HandleOpenLink(url, outcome)
                 ELSE HandleOpenProductPage(url, outcome)) =>
                /\ launches' = launches + 1
                /\ contexts_created' = contexts_created + 1
                /\ ContextUsable(context', browser')]_vars

\* C35: close can be repeated, and the session used again after it. A close
\* called right after a close finds nothing to close, does not raise and
\* changes nothing; a successful open call made right after a close launches
\* a browser and makes a context again, and leaves exactly one tab, at index
\* 0, which is the active one.
C35_CloseRepeatableSessionReusable ==
    [][(ret.op = "close" /\ ret.status = "ok") =>
          /\ (ret'.op = "close" /\ HandleClose(ret'.faults)) =>
                /\ CloseAttempts = {}
                /\ ret'.status = "ok"
                /\ UNCHANGED sessionVars
          /\ (ret'.op \in {"open_product_page", "open_link"} /\ ret'.status = "ok") =>
                \A url \in Urls :
                   (IF ret'.op = "open_link"
                    THEN HandleOpenLink(url, "ok")
                    ELSE HandleOpenProductPage(url, "ok")) =>
                      /\ launches' = launches + 1
                      /\ contexts_created' = contexts_created + 1
                      /\ browser'.connected
                      /\ ContextUsable(context', browser')
                      /\ Len(tabs') = 1
                      /\ ~tabs'[1].closed
                      /\ active_tab_index' = 0
                      /\ ActivePage' = 1]_vars

\* a page was opened after a session with two tabs had been closed: second
\* launch, second context, third page, one tab
C35_Witness ==
    /\ ret.op \in {"open_product_page", "open_link"}
    /\ ret.status = "ok"
    /\ launches = 2
    /\ contexts_created = 2
    /\ pages_created = 3
    /\ Len(tabs) = 1
    /\ tabs[1].id = 3
    /\ active_tab_index = 0

-----------------------------------------------------------------------------
(* The gate's store *)

\* a step of preview_checkout made with a profile, for the url and bytes given
PreviewStep(u, bs) ==
    resp'.op = "preview_checkout" /\ ProfileExists /\ HandlePreviewCheckout(u, bs)

\* what is left of the store once the records older than the TTL are gone
Swept == [k \in {j \in DOMAIN pending : Age(j) <= CONFIRMATION_TTL} |-> pending[k]]

\* C36: the expiry sweep is lazy. Every confirm, and every preview made with a
\* profile, begins with a sweep that removes exactly the records whose age is
\* strictly greater than the TTL: right after such a call no record in the
\* store is older than the TTL, and a record not older than the TTL is gone
\* only if the call was the accepted confirm of its code, and differs only if
\* the call was the preview that stored its code; a record exactly TTL seconds
\* old is kept by the sweep and its confirm is accepted. Time passing alone
\* removes nothing: expired records stay in the store until the next call.
C36_LazySweep ==
    [][/\ ConfirmStep =>
             /\ \A k \in DOMAIN pending' : now' - pending'[k].created_at <= CONFIRMATION_TTL
             /\ pending' = IF Accepted(resp') THEN StorePop(Swept, Supplied) ELSE Swept
             /\ (Supplied \in DOMAIN pending /\ Age(Supplied) = CONFIRMATION_TTL) =>
                   Accepted(resp')
       /\ resp'.op = "preview_checkout" =>
             \A u \in UrlArgs, bs \in RandomBytes :
                PreviewStep(u, bs) =>
                   /\ \A k \in DOMAIN pending' :
                         now' - pending'[k].created_at <= CONFIRMATION_TTL
                   /\ DOMAIN pending' = DOMAIN Swept \cup {GenerateConfirmationCode(bs)}
                   /\ \A k \in DOMAIN Swept \ {GenerateConfirmationCode(bs)} :
                         pending'[k] = pending[k]
       /\ now' # now => pending' = pending]_vars

\* a preview made one second after another code's TTL ran out has swept that
\* code, which no confirm had consumed, and stored its own
C36_Witness ==
    /\ resp.op = "preview_checkout"
    /\ resp.status = "preview"
    /\ resp.code \in DOMAIN pending
    /\ pending[resp.code].created_at = now
    /\ \E k \in DOMAIN issued \ {resp.code} :
          /\ ~issued[k].used
          /\ now - issued[k].at = CONFIRMATION_TTL + 1
          /\ k \notin DOMAIN pending

\* C37: a preview that fails leaves no record behind. When preview does not
\* return a code to its caller, the store holds no record under the code it
\* had generated.
C37_FailedPreviewStoresNothing ==
    [][(resp'.op = "preview_checkout" /\ resp'.status # "preview") =>
          \A u \in UrlArgs, bs \in RandomBytes :
             HandlePreviewCheckout(u, bs) =>
                GenerateConfirmationCode(bs) \notin DOMAIN pending']_vars

\* C38: preview requires a profile. A preview made while no profile exists
\* answers with an error, issues no code, and leaves the store exactly as it
\* was, records older than the TTL included: the sweep does not run.
C38_PreviewRequiresProfile ==
    [][(resp'.op = "preview_checkout" /\ ~ProfileExists) =>
          \A u \in UrlArgs, bs \in RandomBytes :
             HandlePreviewCheckout(u, bs) =>
                /\ resp'.status = "error"
                /\ resp'.code = <<>>
                /\ pending' = pending
                /\ issued' = issued
                /\ profile' = profile]_vars

\* with no profile, a preview has answered with an error while a record one
\* second older than the TTL is still in the store
C38_Witness ==
    /\ resp.op = "preview_checkout"
    /\ resp.status = "error"
    /\ ~ProfileExists
    /\ \E k \in DOMAIN pending : Age(k) = CONFIRMATION_TTL + 1

\* C39: pending codes are independent. Several codes can be pending at once;
\* an accepted confirm of one code removes the record of that code and, besides
\* it, only records older than the TTL: every other record not older than the
\* TTL stays as it is; and a confirm of another pending code that comes right
\* after an accepted confirm is accepted in turn and removes that code's record.
C39_IndependentCodes ==
    [][/\ (ConfirmStep /\ Accepted(resp')) =>
          /\ resp'.code \notin DOMAIN pending'
          /\ \A k \in DOMAIN pending \ {resp'.code} :
                IF Age(k) <= CONFIRMATION_TTL
                THEN /\ k \in DOMAIN pending'
                     /\ pending'[k] = pending[k]
                     /\ issued'[k] = issued[k]
                ELSE k \notin DOMAIN pending'
          /\ DOMAIN pending' \subseteq DOMAIN pending
       /\ (/\ ConfirmStep
           /\ Accepted(resp)
           /\ Supplied # resp.code
           /\ Unexpired(Supplied)) =>
             /\ Accepted(resp')
             /\ resp'.code = Supplied
             /\ Supplied \notin DOMAIN pending']_vars

\* two codes were pending; one was accepted and the other, not yet consumed,
\* is still in the store and not older than the TTL
C39_Witness ==
    /\ Accepted(resp)
    /\ \E k \in DOMAIN pending :
          /\ k # resp.code
          /\ Unexpired(k)
          /\ k \in DOMAIN issued
          /\ ~issued[k].used
          /\ issued[resp.code].used

-----------------------------------------------------------------------------
(* The prompt *)

\* C40: the markup in the prompt is bounded. A markup of at most 100,000
\* characters goes into the prompt whole and without the marker; a longer one
\* goes in as one slice of at most 100,000 characters followed by the marker,
\* the slice starting at the body tag when find has found one and at the start
\* of the markup when it has not, and running for 100,000 characters or to the
\* end of the markup.
C40_BoundedMarkup ==
    LET m == rs.markup
    IN /\ m.len <= MaxLength =>
             (m.start = 0 /\ m.stop = m.len /\ ~m.marker)
       /\ m.len > MaxLength =>
             /\ m.marker
             /\ m.start = (IF m.body_start # NotFound THEN m.body_start ELSE 0)
             /\ m.start <= m.stop
             /\ m.stop <= m.len
             /\ m.stop - m.start <= MaxLength
             /\ m.stop = Min(m.start + MaxLength, m.len)

\* a markup of 200,001 characters with the body tag at position 5 went in as
\* the 100,000 characters from the tag on, with the marker
C40_Witness ==
    /\ rs.markup.len = 2 * MaxLength + 1
    /\ rs.markup.body_start = BodyTagLen
    /\ rs.markup.start = BodyTagLen
    /\ rs.markup.stop - rs.markup.start = MaxLength
    /\ rs.markup.marker

====
